---- MODULE Spec2Model ----
(***************************************************************************)
(* H3-Pandas: the line tracing and polygon coverage engines                *)
(* (h3pandas/util/shapely.py), the sequential de-duplication filter        *)
(* (h3pandas/util/decorator.py) and the row-level wrappers of the          *)
(* accessor (h3pandas/h3pandas.py).                                        *)
(*                                                                         *)
(* Python values are records tagged with their type; a generator is a      *)
(* process with a position (pc) that advances only when its caller asks    *)
(* for an element.  The grid library (h3) is outside the repository: it    *)
(* is modelled by its contract on a small axial hexagonal lattice.         *)
(***************************************************************************)
EXTENDS Integers, Sequences, FiniteSets, TLC

VARIABLES
    func,       \* the function the caller invoked
    args,       \* the arguments of the call
    pc,         \* "idle", "created", "suspended", "done", "raised", "returned"
    requests,   \* how many elements the caller has asked the generator for
    iterable,   \* inner's local `iterable`: the wrapped generator's remainder
    last,       \* inner's local `last`
    cell,       \* inner's local `cell` (the element handed out at the yield)
    out,        \* the elements the caller has received, in order
    raised,     \* the exception the caller has seen, or NoExc
    result,     \* the value a plain (non-generator) call returned
    warnings,   \* the warnings the call has emitted, in order
    steps,      \* the operations on tables a smoothing call has run, in order
    index_name, \* the name of the index of the table a call returned
    env,        \* the run's environment: the order it iterates sets in, and
                \* what the installed pandas does
    frames      \* the tables the caller holds, as objects: frames[n] is what
                \* object n holds (kept where calls follow one another on
                \* the same tables, <<>> elsewhere)

vars == <<func, args, pc, requests, iterable, last, cell, out, raised, result,
          warnings, steps, index_name, env, frames>>

(***************************************************************************)
(* Bounds of the model.                                                    *)
(***************************************************************************)
MaxRes == 1         \* resolutions 0..MaxRes (finest = MaxRes)
MaxLen == 4         \* longest enumerated input of the generic filter
MaxVal == 3         \* generic filter: elements 1..MaxVal (and None)
MaxVertices == 3    \* most vertices of an enumerated line
MaxParts == 2       \* most component lines of a multi-line
MaxHoles == 1       \* most holes of an enumerated polygon
MaxPolys == 2       \* most members of a multi-polygon
MaxRows == 2        \* most rows of a table
MaxCalls == 2       \* most calls a caller makes one after the other
MaxRings == 2       \* the weights of a weighted smoothing of those calls
MaxFuel == 29       \* most library calls of a call before one fails

(***************************************************************************)
(* Python values.                                                          *)
(***************************************************************************)
None == [t |-> "NoneType"]

PyInt(n) == [t |-> "int", v |-> n]

NoExc == [exc |-> "none"]

\* raise TypeError(f"Unknown type {type(geometry)}")
UnknownTypeError(geometry) ==
    [exc |-> "TypeError", text |-> "Unknown type", type |-> geometry.type]

(***************************************************************************)
(* Sequence helpers.                                                       *)
(***************************************************************************)
Range(s) == {s[k] : k \in 1..Len(s)}

SeqsUpTo(S, n) == UNION {[1..k -> S] : k \in 0..n}

RECURSIVE Flatten(_)
Flatten(ss) ==
    IF ss = <<>> THEN <<>> ELSE Head(ss) \o Flatten(Tail(ss))

\* the sum of a sequence of integers
RECURSIVE SumSeq(_)
SumSeq(ns) == IF ns = <<>> THEN 0 ELSE Head(ns) + SumSeq(Tail(ns))

\* the n-th order of the elements of a sequence: every order is the n-th for
\* some n below the factorial of the length
RECURSIVE Permuted(_, _)
Permuted(seq, n) ==
    IF seq = <<>> THEN <<>>
    ELSE LET p == (n % Len(seq)) + 1
         IN  <<seq[p]>> \o Permuted(SubSeq(seq, 1, p - 1) \o SubSeq(seq, p + 1, Len(seq)),
                                    n \div Len(seq))

RECURSIVE Factorial(_)
Factorial(n) == IF n <= 1 THEN 1 ELSE n * Factorial(n - 1)

\* the ways a run can iterate the given sets: a pair <<set, n>> for every
\* set, n the place of its order among the orders of its elements.  The
\* string hashes of the interpreter (PYTHONHASHSEED) decide the order; a
\* run gives equal sets built alike the same order
RECURSIVE Orders(_)
Orders(sets) ==
    IF sets = {} THEN {{}}
    ELSE LET x == CHOOSE x \in sets : TRUE
         IN  {{<<x, n>>} \cup others :
                n \in 0..(Factorial(Cardinality(x)) - 1),
                others \in Orders(sets \ {x})}

\* what the releases of pandas the source runs under differ in, as
\* (sorts_joins, sums_numeric_only).  sorts_joins: a join on a non-unique
\* index gives its rows key by key, sorted (releases before 2.2), or in the
\* order of the left table.  sums_numeric_only: the sum of a group-by leaves
\* the columns that are not numeric out (releases before 2.0), or sums every
\* column and fails on one it cannot add.  The releases are 1.x, 2.0 to 2.1,
\* and 2.2 onwards
PandasReleases == {<<TRUE, TRUE>>, <<TRUE, FALSE>>, <<FALSE, FALSE>>}

\* the environments of a run that makes lists of the given sets.  orders:
\* the order every one of them is iterated in; the other fields are those
\* of the installed pandas
Environments(sets) ==
    {[orders |-> o, sorts_joins |-> p[1], sums_numeric_only |-> p[2]] :
        o \in Orders(sets), p \in PandasReleases}

\* list(x) of a set x whose elements are `sorted` in ascending order: the
\* elements in the order the run iterates the set in (ascending for a set
\* the environment names no order of)
ListOfSet(x, sorted) ==
    IF \E o \in env.orders : o[1] = x
    THEN Permuted(sorted, (CHOOSE o \in env.orders : o[1] = x)[2])
    ELSE sorted

\* t[::-1] of a coordinate pair
Reversed(t) == <<t[2], t[1]>>

(***************************************************************************)
(* The grid library on an axial hexagonal lattice.  A cell address is      *)
(* [res, i, j]; a cell of resolution res is CellSize(res) units wide and   *)
(* a parent holds 2 x 2 children.                                          *)
(***************************************************************************)
Abs(n) == IF n < 0 THEN 0 - n ELSE n

RECURSIVE Pow2(_)
Pow2(n) == IF n <= 0 THEN 1 ELSE 2 * Pow2(n - 1)

Resolutions == 0..MaxRes

CellSize(res) == 4 * Pow2(MaxRes - res)

\* h3.latlng_to_cell(lat, lng, res)
latlng_to_cell(lat, lng, res) ==
    [res |-> res, i |-> lng \div CellSize(res), j |-> lat \div CellSize(res)]

\* h3.grid_distance(a, b)
grid_distance(a, b) ==
    LET di == b.i - a.i
        dj == b.j - a.j
    IN  (Abs(di) + Abs(dj) + Abs(di + dj)) \div 2

Directions ==
    << <<1, 0>>, <<1, -1>>, <<0, -1>>, <<-1, 0>>, <<-1, 1>>, <<0, 1>> >>

Shift(c, d) == [res |-> c.res, i |-> c.i + d[1], j |-> c.j + d[2]]

\* h3.grid_path_cells(a, b): a shortest contiguous path, a and b included
RECURSIVE grid_path_cells(_, _)
grid_path_cells(a, b) ==
    IF a = b THEN <<a>>
    ELSE LET d == grid_distance(a, b)
             k == CHOOSE k \in 1..6 :
                    /\ grid_distance(Shift(a, Directions[k]), b) = d - 1
                    /\ \A m \in 1..(k - 1) :
                         grid_distance(Shift(a, Directions[m]), b) # d - 1
         IN  <<a>> \o grid_path_cells(Shift(a, Directions[k]), b)

(***************************************************************************)
(* Geometries (shapely).  Coordinates are (x, y) = (lng, lat).             *)
(***************************************************************************)
LineString(coords) == [type |-> "LineString", coords |-> coords]

MultiLineString(lines) == [type |-> "MultiLineString", geoms |-> lines]

Polygon(shell, holes) ==
    [type |-> "Polygon", exterior |-> shell, interiors |-> holes]

MultiPolygon(polygons) == [type |-> "MultiPolygon", geoms |-> polygons]

Point(x, y) == [type |-> "Point", coords |-> << <<x, y>> >>]

(***************************************************************************)
(* sequential_deduplication (util/decorator.py).                           *)
(* An iterator is [items, exc]: the elements it still yields and the       *)
(* exception it raises once they are used up (NoExc: StopIteration).       *)
(***************************************************************************)
Iter(items, exc) == [items |-> items, exc |-> exc]

\* the mutant of inner whose loop yields every element, equal to `last` or not
RECURSIVE inner_NoCompare(_, _)
inner_NoCompare(it, lst) ==
    IF it.items = <<>>
    THEN IF it.exc = NoExc
         THEN [kind |-> "stop", rest |-> Iter(<<>>, NoExc), last |-> lst]
         ELSE [kind |-> "raise", exc |-> it.exc, rest |-> Iter(<<>>, NoExc), last |-> lst]
    ELSE LET c == Head(it.items)
             rest == Iter(Tail(it.items), it.exc)
         IN  IF c = None THEN [kind |-> "stop", rest |-> rest, last |-> lst]
             ELSE [kind |-> "yield", cell |-> c, rest |-> rest, last |-> lst]

\* inner's loop from the evaluation of `next(iterable, None)` to the next
\* yield, to the end of the loop, or to an exception of the wrapped generator,
\* with what the step leaves of the wrapped iterator (`rest`: the element that
\* ends the loop is consumed, a generator that raised is finished) and the
\* value of the local `last` where the step ends:
\*     while (cell := next(iterable, None)) is not None:
\*         if cell != last: yield cell
\*         last = cell
RECURSIVE inner(_, _)
inner(it, lst) ==
    IF it.items = <<>>
    THEN IF it.exc = NoExc
         THEN [kind |-> "stop", rest |-> Iter(<<>>, NoExc), last |-> lst]
         ELSE [kind |-> "raise", exc |-> it.exc, rest |-> Iter(<<>>, NoExc), last |-> lst]
    ELSE LET c == Head(it.items)
             rest == Iter(Tail(it.items), it.exc)
         IN  IF c = None THEN [kind |-> "stop", rest |-> rest, last |-> lst]
             ELSE IF c # lst
             THEN [kind |-> "yield", cell |-> c, rest |-> rest, last |-> lst]
             ELSE inner(rest, c)

\* the generator run to its end, as `yield from` and list() consume it:
\* the elements it yields and the exception that ends it
RECURSIVE Consume(_, _)
Consume(it, lst) ==
    LET r == inner(it, lst)
    IN  IF r.kind = "yield"
        THEN LET more == Consume(r.rest, r.cell)
             IN  Iter(<<r.cell>> \o more.items, more.exc)
        ELSE Iter(<<>>, IF r.kind = "raise" THEN r.exc ELSE NoExc)

\* sequential_deduplication(func)(*args), consumed whole
sequential_deduplication(it) == Consume(it, None)

(***************************************************************************)
(* linetrace (util/shapely.py).                                            *)
(***************************************************************************)
\* the mutant of VertexPairs that pairs the vertices two by two, without
\* the pair that joins one pair to the next
VertexPairs_TwoByTwo(coords) ==
    [k \in 1..(Len(coords) \div 2) |-> <<coords[2 * k - 1], coords[2 * k]>>]

\* zip(geometry.coords, geometry.coords[1:])
VertexPairs(coords) ==
    [k \in 1..(Len(coords) - 1) |-> <<coords[k], coords[k + 1]>>]

\* the mutant of SegmentCells that leaves out the end cell of the segment
SegmentCells_OpenEnd(pair, resolution) ==
    LET a == latlng_to_cell(Reversed(pair[1])[1], Reversed(pair[1])[2], resolution)
        b == latlng_to_cell(Reversed(pair[2])[1], Reversed(pair[2])[2], resolution)
        p == grid_path_cells(a, b)
    IN  IF Len(p) > 1 THEN SubSeq(p, 1, Len(p) - 1) ELSE p

\* one turn of the while loop over the vertex pairs:
\*     a = h3.latlng_to_cell(*i[::-1], resolution)
\*     b = h3.latlng_to_cell(*j[::-1], resolution)
\*     yield from h3.grid_path_cells(a, b)
SegmentCells(pair, resolution) ==
    LET a == latlng_to_cell(Reversed(pair[1])[1], Reversed(pair[1])[2], resolution)
        b == latlng_to_cell(Reversed(pair[2])[1], Reversed(pair[2])[2], resolution)
    IN  grid_path_cells(a, b)

RECURSIVE TracePairs(_, _)
TracePairs(pairs, resolution) ==
    IF pairs = <<>> THEN <<>>
    ELSE SegmentCells(Head(pairs), resolution)
             \o TracePairs(Tail(pairs), resolution)

\* the mutant of TraceGeoms that traces only the first component line
TraceGeoms_FirstOnly(geoms, resolution, traced) ==
    IF geoms = <<>> THEN Iter(<<>>, NoExc)
    ELSE traced[1]

\* for line in map(lambda geom: linetrace(geom, resolution), geometry.geoms):
\*     yield from line
\* traced[k] is linetrace(geoms[k], resolution) consumed whole
RECURSIVE TraceGeoms(_, _, _)
TraceGeoms(geoms, resolution, traced) ==
    IF geoms = <<>> THEN Iter(<<>>, NoExc)
    ELSE LET line == traced[1]
         IN  IF line.exc # NoExc THEN line
             ELSE LET more == TraceGeoms(Tail(geoms), resolution, Tail(traced))
                  IN  Iter(line.items \o more.items, more.exc)

RECURSIVE linetrace_body(_, _)

\* the mutant of linetrace_body that ends silently on an unsupported geometry
linetrace_body_Silent(geometry, resolution) ==
    IF geometry.type = "MultiLineString"
    THEN TraceGeoms(geometry.geoms, resolution,
            [k \in 1..Len(geometry.geoms) |->
                sequential_deduplication(
                    linetrace_body(geometry.geoms[k], resolution))])
    ELSE IF geometry.type = "LineString"
    THEN Iter(TracePairs(VertexPairs(geometry.coords), resolution), NoExc)
    ELSE Iter(<<>>, NoExc)

\* the mutant of linetrace_body that reads the first vertex of a line before
\* its loop, and fails on an empty line
linetrace_body_FirstVertex(geometry, resolution) ==
    IF geometry.type = "MultiLineString"
    THEN TraceGeoms(geometry.geoms, resolution,
            [k \in 1..Len(geometry.geoms) |->
                sequential_deduplication(
                    linetrace_body(geometry.geoms[k], resolution))])
    ELSE IF geometry.type = "LineString"
    THEN IF geometry.coords = <<>>
         THEN Iter(<<>>, [exc |-> "IndexError"])
         ELSE Iter(TracePairs(VertexPairs(geometry.coords), resolution), NoExc)
    ELSE Iter(<<>>, UnknownTypeError(geometry))

\* the body of linetrace, under the decorator: what the wrapped generator
\* yields and how it ends
linetrace_body(geometry, resolution) ==
    IF geometry.type = "MultiLineString"
    THEN TraceGeoms(geometry.geoms, resolution,
            [k \in 1..Len(geometry.geoms) |->
                sequential_deduplication(
                    linetrace_body(geometry.geoms[k], resolution))])
    ELSE IF geometry.type = "LineString"
    THEN Iter(TracePairs(VertexPairs(geometry.coords), resolution), NoExc)
    ELSE Iter(<<>>, UnknownTypeError(geometry))

\* def function_taking_iterator(iterator): yield from iterator
function_taking_iterator(iterator) == Iter(iterator, NoExc)

\* iterable = func(*args)
Wrapped(f, a) ==
    IF f = "linetrace"
    THEN linetrace_body(a.geometry, a.resolution)
    ELSE function_taking_iterator(a.iterator)

(***************************************************************************)
(* polyfill (util/shapely.py) and the grid library's polygon fill.         *)
(* The library's shapes hold (lat, lng) pairs, the geometries (lng, lat).  *)
(***************************************************************************)
\* a ring of the geo interface without its closing vertex, axes swapped
OpenRingLatLng(ring) ==
    [k \in 1..(Len(ring) - 1) |-> Reversed(ring[k])]

\* h3.geo_to_h3shape(geometry): LatLngPoly(outer, *holes), LatLngMultiPoly
RECURSIVE geo_to_h3shape(_)
geo_to_h3shape(geometry) ==
    IF geometry.type = "Polygon"
    THEN [shape |-> "LatLngPoly",
          outer |-> OpenRingLatLng(geometry.exterior),
          holes |-> [k \in 1..Len(geometry.interiors) |->
                        OpenRingLatLng(geometry.interiors[k])]]
    ELSE [shape |-> "LatLngMultiPoly",
          polys |-> [k \in 1..Len(geometry.geoms) |->
                        geo_to_h3shape(geometry.geoms[k])]]

\* the representative point of a cell, as (lat, lng): its centre
cell_to_latlng(c) ==
    << c.j * CellSize(c.res) + CellSize(c.res) \div 2,
       c.i * CellSize(c.res) + CellSize(c.res) \div 2 >>

\* the cells of one resolution in the part of the plane the inputs lie in,
\* in the library's order of enumeration
GridWidth(res) == 1 + (15 \div CellSize(res))

GridCells(res) ==
    [n \in 1..(GridWidth(res) * GridWidth(res)) |->
        [res |-> res, i |-> (n - 1) % GridWidth(res),
                      j |-> (n - 1) \div GridWidth(res)]]

\* whether the ray from p towards greater lng crosses the edge v-w
Crosses(p, v, w) ==
    /\ (v[1] > p[1]) # (w[1] > p[1])
    /\ IF w[1] > v[1]
       THEN (p[2] - v[2]) * (w[1] - v[1]) < (p[1] - v[1]) * (w[2] - v[2])
       ELSE (p[2] - v[2]) * (w[1] - v[1]) > (p[1] - v[1]) * (w[2] - v[2])

\* point in ring by the crossing number, the ring closed from its last
\* vertex to its first
InRing(p, ring) ==
    Cardinality({k \in 1..Len(ring) :
        Crosses(p, ring[k], ring[(k % Len(ring)) + 1])}) % 2 = 1

InPoly(p, poly) ==
    /\ InRing(p, poly.outer)
    /\ \A k \in 1..Len(poly.holes) : ~InRing(p, poly.holes[k])

\* h3.polygon_to_cells(h3shape, res): a list; for a LatLngMultiPoly the
\* lists of its polygons one after the other
RECURSIVE polygon_to_cells(_, _)
polygon_to_cells(h3shape, res) ==
    IF h3shape.shape = "LatLngPoly"
    THEN SelectSeq(GridCells(res), LAMBDA c : InPoly(cell_to_latlng(c), h3shape))
    ELSE Flatten([k \in 1..Len(h3shape.polys) |->
                    polygon_to_cells(h3shape.polys[k], res)])

Return(value) == [kind |-> "return", value |-> value]

Raise(exc) == [kind |-> "raise", exc |-> exc]

\* the mutant of polyfill that fills the exterior ring and ignores the holes
polyfill_NoHoles(geometry, resolution) ==
    IF geometry.type = "Polygon"
    THEN Return(Range(polygon_to_cells(
            geo_to_h3shape(Polygon(geometry.exterior, <<>>)), resolution)))
    ELSE IF geometry.type = "MultiPolygon"
    THEN Return(Range(polygon_to_cells(geo_to_h3shape(geometry), resolution)))
    ELSE Raise(UnknownTypeError(geometry))

\* the mutant of polyfill that fills only the first member of a multi-polygon
polyfill_FirstMember(geometry, resolution) ==
    IF geometry.type = "Polygon"
    THEN Return(Range(polygon_to_cells(geo_to_h3shape(geometry), resolution)))
    ELSE IF geometry.type = "MultiPolygon"
    THEN Return(Range(polygon_to_cells(
            geo_to_h3shape(MultiPolygon(
                IF geometry.geoms = <<>> THEN <<>> ELSE <<geometry.geoms[1]>>)),
            resolution)))
    ELSE Raise(UnknownTypeError(geometry))

\* the mutant of polyfill that takes every geometry with coordinates for a
\* ring and rejects only the rest
polyfill_AnyCoords(geometry, resolution) ==
    IF geometry.type \in {"Polygon", "MultiPolygon"}
    THEN Return(Range(polygon_to_cells(geo_to_h3shape(geometry), resolution)))
    ELSE IF geometry.type = "LineString"
    THEN Return(Range(polygon_to_cells(
            geo_to_h3shape(Polygon(geometry.coords, <<>>)), resolution)))
    ELSE Raise(UnknownTypeError(geometry))

\* def polyfill(geometry, resolution) -> Set[str]
polyfill(geometry, resolution) ==
    IF geometry.type \in {"Polygon", "MultiPolygon"}
    THEN Return(Range(polygon_to_cells(geo_to_h3shape(geometry), resolution)))
    ELSE Raise(UnknownTypeError(geometry))

(***************************************************************************)
(* H3Accessor.polyfill (h3pandas.py).  A table is the sequence of its      *)
(* rows, a row a record of its index key and its columns.                  *)
(***************************************************************************)
\* const.py
COLUMN_H3_POLYFILL == "h3_polyfill"

NaN == [t |-> "float", v |-> "nan"]

\* the call polyfill(*positional) of def polyfill(geometry, resolution):
\* Python binds the arguments to the two parameters before the body runs
polyfill_call(positional) ==
    IF Len(positional) # 2
    THEN Raise([exc |-> "TypeError", text |-> "polyfill() takes 2 positional arguments",
                given |-> Len(positional)])
    ELSE polyfill(positional[1], positional[2])

\* list(cells) of a set of cells
ListOf(cells, resolution) ==
    ListOfSet(cells, SelectSeq(GridCells(resolution), LAMBDA c : c \in cells))

\* def func(row): return list(polyfill(row.geometry, resolution, True))
AccessorFunc(row, resolution) ==
    LET r == polyfill_call(<<row.geometry, resolution, TRUE>>)
    IN  IF r.kind = "raise" THEN r ELSE Return(ListOf(r.value, resolution))

\* self._df.apply(func, axis=1): func row by row, in order; the first
\* exception ends the call
RECURSIVE DataFrameApply(_, _)
DataFrameApply(df, resolution) ==
    IF df = <<>> THEN Return(<<>>)
    ELSE LET r == AccessorFunc(Head(df), resolution)
         IN  IF r.kind = "raise" THEN r
             ELSE LET more == DataFrameApply(Tail(df), resolution)
                  IN  IF more.kind = "raise" THEN more
                      ELSE Return(<<r.value>> \o more.value)

\* self._df.assign(**{column: values})
Assign(df, column, values) ==
    [k \in 1..Len(df) |-> (column :> values[k]) @@ df[k]]

\* result.explode().to_frame(column) joined to self._df: a row per element
\* of the row's list, and one row holding NaN for an empty list
ExplodeRow(row, column, values) ==
    IF values = <<>> THEN << (column :> NaN) @@ row >>
    ELSE [k \in 1..Len(values) |-> (column :> values[k]) @@ row]

\* (the keys 0, 1, ... of the table ascend: a join ordered by key and a join
\* in the order of the table give the same rows in the same order)
ExplodeJoin(df, column, lists) ==
    Flatten([k \in 1..Len(df) |-> ExplodeRow(df[k], column, lists[k])])

\* H3Accessor.polyfill(resolution, explode)
H3Accessor_polyfill(df, resolution, explode) ==
    LET applied == DataFrameApply(df, resolution)
    IN  IF applied.kind = "raise" THEN applied
        ELSE IF ~explode
        THEN Return(Assign(df, COLUMN_H3_POLYFILL, applied.value))
        ELSE Return(ExplodeJoin(df, COLUMN_H3_POLYFILL, applied.value))

(***************************************************************************)
(* Exceptions.  An exception is [exc |-> its class, ...]; the grid         *)
(* library's cell error derives from its value error, which derives from   *)
(* ValueError.                                                             *)
(***************************************************************************)
PyStr(s) == [t |-> "str", v |-> s]

\* the classes of the method resolution order of an exception class
Bases(cls) ==
    CASE cls = "H3CellError" ->
            {"H3CellError", "H3ValueError", "ValueError", "Exception"}
      [] cls = "H3ResolutionError" ->
            {"H3ResolutionError", "H3ValueError", "ValueError", "Exception"}
      [] OTHER -> {cls, "Exception"}

\* isinstance(e, classes), the test of an except clause
IsInstance(e, classes) == Bases(e.exc) \cap classes # {}

\* repr(x): the text that shows x; a text is told apart from what it shows
repr(x) == [repr |-> x]

(***************************************************************************)
(* The grid library's functions of one cell address (h3 of h3pandas.py).   *)
(* Whatever is not a cell record is an invalid address.                    *)
(***************************************************************************)
IsCell(h) == DOMAIN h = {"res", "i", "j"}

\* a text with the form of an address that names no cell
BadCell == PyStr("891f1d48177fff1")

\* the error the library raises for an address, NoExc for a cell
AddressError(h) ==
    IF IsCell(h) THEN NoExc
    ELSE IF h.t # "str"
    THEN [exc |-> "TypeError", text |-> "Argument has incorrect type"]
    ELSE IF h = BadCell
    THEN [exc |-> "H3CellError", text |-> "Integer is not a valid H3 cell"]
    ELSE [exc |-> "ValueError", text |-> "invalid literal for int() with base 16"]

\* h3.h3_get_resolution(h)
h3_get_resolution(h) == h.res

\* h3.h3_to_parent(h, res): the direct parent when res is None
h3_to_parent(h, res) ==
    LET r == IF res = None THEN h.res - 1 ELSE res.v
    IN  IF r < 0 \/ r > h.res
        THEN Raise([exc |-> "H3ResolutionError", text |-> "Invalid parent resolution",
                    res |-> r])
        ELSE Return([res |-> r,
                     i |-> h.i \div Pow2(h.res - r),
                     j |-> h.j \div Pow2(h.res - r)])

\* the cells of the resolution of h within grid distance k of h
Disk(h, k) ==
    {c \in [res : {h.res}, i : (h.i - k)..(h.i + k), j : (h.j - k)..(h.j + k)] :
        grid_distance(h, c) <= k}

\* h3.k_ring(h, k): a set
k_ring(h, k) == Disk(h, k)

\* the mutant of hex_ring that gives the filled disk
hex_ring_Filled(h, k) == Disk(h, k)

\* h3.hex_ring(h, k): a set
hex_ring(h, k) == {c \in Disk(h, k) : grid_distance(h, c) = k}

\* h3.h3_to_geo_boundary(h, geo_json=True): the closed ring of (lng, lat)
h3_to_geo_boundary(h) ==
    LET s == CellSize(h.res)
    IN  << <<h.i * s, h.j * s>>, <<(h.i + 1) * s, h.j * s>>,
           <<(h.i + 1) * s, (h.j + 1) * s>>, <<h.i * s, (h.j + 1) * s>>,
           <<h.i * s, h.j * s>> >>

\* wrapped_partial(func, **kwargs): the function with its bound keyword
\* arguments; update_wrapper gives it the name of func
wrapped_partial(name, kwargs) == [name |-> name, kwargs |-> kwargs]

\* f(h) of a function of the library, or of a function the caller made that
\* looks the address up in a table of sequences
Call(f, h) ==
    IF f.name = "lookup"
    THEN IF h \in DOMAIN f.kwargs.table
         THEN Return(f.kwargs.table[h])
         ELSE Raise([exc |-> "KeyError", key |-> h])
    ELSE IF AddressError(h) # NoExc THEN Raise(AddressError(h))
    ELSE CASE f.name = "h3_get_resolution" -> Return(h3_get_resolution(h))
           [] f.name = "h3_to_parent" -> h3_to_parent(h, f.kwargs.res)
           [] f.name = "k_ring" -> Return(k_ring(h, f.kwargs.k))
           [] f.name = "hex_ring" -> Return(hex_ring(h, f.kwargs.k))
           [] f.name = "h3_to_geo_boundary" -> Return(h3_to_geo_boundary(h))

(***************************************************************************)
(* catch_invalid_h3_address (util/decorator.py).                           *)
(***************************************************************************)
\* _print_signature(*args, **kwargs): the texts of the positional
\* arguments in order, and those of the keyword arguments joined from a set
_print_signature(positional, keywords) ==
    [args |-> [k \in 1..Len(positional) |-> repr(positional[k])],
     kwargs |-> {<<repr(kw), repr(keywords[kw])>> : kw \in DOMAIN keywords}]

\* raise ValueError(message)
InvalidAddressError(f, positional, keywords, e) ==
    [exc |-> "ValueError",
     text |-> "H3 method raised an error. Is the H3 address correct?",
     caller |-> f.name,
     signature |-> _print_signature(positional, keywords),
     original |-> repr(e)]

\* the mutant of safe_f whose except clause names ValueError alone
safe_f_ValueErrorOnly(f, h) ==
    LET r == Call(f, h)
    IN  IF r.kind = "raise" /\ IsInstance(r.exc, {"ValueError"})
        THEN Raise(InvalidAddressError(f, <<h>>, <<>>, r.exc))
        ELSE r

\* safe_f(h) of catch_invalid_h3_address(f)
safe_f(f, h) ==
    LET r == Call(f, h)
    IN  IF r.kind = "raise" /\ IsInstance(r.exc, {"TypeError", "ValueError"})
        THEN Raise(InvalidAddressError(f, <<h>>, <<>>, r.exc))
        ELSE r

(***************************************************************************)
(* The row application layer (h3pandas.py, private methods).               *)
(***************************************************************************)
\* the cells of a set as pandas sorts keys: in the order of the address
\* texts, which the lattice gives as resolution, then j, then i
RECURSIVE SortedCells(_)
SortedCells(S) ==
    IF S = {} THEN <<>>
    ELSE LET c == CHOOSE c \in S : \A d \in S :
                    \/ c.res < d.res
                    \/ c.res = d.res /\ c.j < d.j
                    \/ c.res = d.res /\ c.j = d.j /\ c.i <= d.i
         IN  <<c>> \o SortedCells(S \ {c})

\* processor(x): the identity, list (of a set of cells), or
\* shapely.geometry.Polygon
Process(processor, x) ==
    CASE processor = "identity" -> x
      [] processor = "list" -> ListOfSet(x, SortedCells(x))
      [] processor = "Polygon" -> Polygon(x, <<>>)

\* gpd.GeoDataFrame(x, crs="epsg:4326")
GeoDataFrame(x, crs) == [frame |-> "GeoDataFrame", crs |-> crs, rows |-> x]

\* finalizer(x): the identity, or the wrapping as a geometry-bearing table
Finalize(finalizer, x) ==
    CASE finalizer = "identity" -> x
      [] finalizer = "GeoDataFrame" -> GeoDataFrame(x, "epsg:4326")

\* the mutant of _apply_index_assign that leaves out the rows whose address
\* the guarded function fails on
_apply_index_assign_SkipInvalid(df, f, column_name, processor, finalizer) ==
    LET calls == [k \in 1..Len(df) |-> safe_f(f, df[k].index)]
        good == SelectSeq([k \in 1..Len(df) |-> k],
                          LAMBDA k : calls[k].kind = "return")
    IN  Return(Finalize(finalizer,
            [n \in 1..Len(good) |->
                (column_name :> Process(processor, calls[good[n]].value))
                    @@ df[good[n]]]))

\* the mutant of _apply_index_assign that keeps a column the table has
_apply_index_assign_KeepColumn(df, f, column_name, processor, finalizer) ==
    LET calls == [k \in 1..Len(df) |-> safe_f(f, df[k].index)]
        failed == {k \in 1..Len(df) : calls[k].kind = "raise"}
    IN  IF failed # {}
        THEN calls[CHOOSE k \in failed : \A m \in failed : k <= m]
        ELSE Return(Finalize(finalizer,
                [k \in 1..Len(df) |->
                    df[k] @@ (column_name :> Process(processor, calls[k].value))]))

\* _apply_index_assign(func, column_name, processor, finalizer): the list
\* comprehension calls the guarded func address by address, the first
\* exception ends it
_apply_index_assign(df, f, column_name, processor, finalizer) ==
    LET calls == [k \in 1..Len(df) |-> safe_f(f, df[k].index)]
        failed == {k \in 1..Len(df) : calls[k].kind = "raise"}
    IN  IF failed # {}
        THEN calls[CHOOSE k \in failed : \A m \in failed : k <= m]
        ELSE Return(Finalize(finalizer,
                Assign(df, column_name,
                       [k \in 1..Len(df) |-> Process(processor, calls[k].value)])))

\* H3Accessor.h3_to_geo_boundary()
H3Accessor_h3_to_geo_boundary(df) ==
    _apply_index_assign(df, wrapped_partial("h3_to_geo_boundary", [geo_json |-> TRUE]),
                        "geometry", "Polygon", "GeoDataFrame")

\* {h3address: processor(func(h3address)) for h3address in self._df.index}
\* as the list of its (key, value) pairs: a key is listed where it first
\* came, and a later value for a key takes the place of the earlier one
RECURSIVE DictOf(_, _)
DictOf(keys, values) ==
    IF keys = <<>> THEN <<>>
    ELSE LET n == Len(keys)
             before == DictOf(SubSeq(keys, 1, n - 1), SubSeq(values, 1, n - 1))
         IN  IF \E m \in 1..Len(before) : before[m][1] = keys[n]
             THEN [m \in 1..Len(before) |->
                     IF before[m][1] = keys[n] THEN <<keys[n], values[n]>>
                     ELSE before[m]]
             ELSE Append(before, <<keys[n], values[n]>>)

\* pd.DataFrame.from_dict(d, orient="index").stack().to_frame(column_name)
\* .reset_index(level=1, drop=True): a row per key and element of its
\* sequence, in order; the padding of the shorter sequences is dropped
StackFrame(d, column_name) ==
    Flatten([m \in 1..Len(d) |->
        [e \in 1..Len(d[m][2]) |->
            [index |-> d[m][1]] @@ (column_name :> d[m][2][e])]])

\* whether no key of the table comes twice
IsUnique(df) ==
    \A k, m \in 1..Len(df) : df[k].index = df[m].index => k = m

\* self._df.join(other): for every row of the table the rows of `other`
\* with its key; the row itself, with NaN, when there is none.  The rows
\* come in the order of the table; where a key comes twice on either side,
\* a pandas that orders such joins gives them key by key, sorted
LeftJoin(df, other, column_name) ==
    LET keys == SortedCells({df[k].index : k \in 1..Len(df)})
        left == IF env.sorts_joins /\ ~(IsUnique(df) /\ IsUnique(other))
                THEN Flatten([n \in 1..Len(keys) |->
                        SelectSeq(df, LAMBDA row : row.index = keys[n])])
                ELSE df
    IN  Flatten([k \in 1..Len(left) |->
            LET matches == SelectSeq(other, LAMBDA row : row.index = left[k].index)
            IN  IF matches = <<>> THEN << (column_name :> NaN) @@ left[k] >>
                ELSE [m \in 1..Len(matches) |->
                        (column_name :> matches[m][column_name]) @@ left[k]]])

\* the mutant of _apply_index_explode whose join leaves out the rows of the
\* table that have no row in the exploded frame
_apply_index_explode_InnerJoin(df, f, column_name, processor, finalizer) ==
    LET calls == [k \in 1..Len(df) |-> safe_f(f, df[k].index)]
        failed == {k \in 1..Len(df) : calls[k].kind = "raise"}
        exploded == StackFrame(
            DictOf([k \in 1..Len(df) |-> df[k].index],
                   [k \in 1..Len(df) |-> Process(processor, calls[k].value)]),
            column_name)
    IN  IF failed # {}
        THEN calls[CHOOSE k \in failed : \A m \in failed : k <= m]
        ELSE Return(Finalize(finalizer,
                SelectSeq(LeftJoin(df, exploded, column_name),
                          LAMBDA row : row[column_name] # NaN)))

\* _apply_index_explode(func, column_name, processor, finalizer)
_apply_index_explode(df, f, column_name, processor, finalizer) ==
    LET calls == [k \in 1..Len(df) |-> safe_f(f, df[k].index)]
        failed == {k \in 1..Len(df) : calls[k].kind = "raise"}
        exploded == StackFrame(
            DictOf([k \in 1..Len(df) |-> df[k].index],
                   [k \in 1..Len(df) |-> Process(processor, calls[k].value)]),
            column_name)
    IN  IF failed # {}
        THEN calls[CHOOSE k \in failed : \A m \in failed : k <= m]
        ELSE Return(Finalize(finalizer, LeftJoin(df, exploded, column_name)))

\* str(n) of a natural number
Digit == << "0", "1", "2", "3", "4", "5", "6", "7", "8", "9" >>

RECURSIVE str(_)
str(n) == IF n < 10 THEN Digit[n + 1] ELSE str(n \div 10) \o Digit[(n % 10) + 1]

\* s.zfill(width)
RECURSIVE zfill(_, _)
zfill(s, width) == IF Len(s) < width THEN zfill("0" \o s, width) ELSE s

\* _format_resolution(resolution)
_format_resolution(resolution) == "h3_" \o zfill(str(resolution.v), 2)

\* bool(x) of None or an int
Truthy(x) == x # None /\ x # PyInt(0)

\* H3Accessor.h3_to_parent(resolution=None)
H3Accessor_h3_to_parent(df, resolution) ==
    LET column == IF Truthy(resolution) THEN _format_resolution(resolution)
                  ELSE "h3_parent"
    IN  _apply_index_assign(df, wrapped_partial("h3_to_parent", [res |-> resolution]),
                            column, "identity", "identity")

\* H3Accessor.k_ring(k, explode)
H3Accessor_k_ring(df, k, explode) ==
    IF explode
    THEN _apply_index_explode(df, wrapped_partial("k_ring", [k |-> k]),
                              "h3_k_ring", "list", "identity")
    ELSE _apply_index_assign(df, wrapped_partial("k_ring", [k |-> k]),
                             "h3_k_ring", "list", "identity")

\* H3Accessor.hex_ring(k, explode)
H3Accessor_hex_ring(df, k, explode) ==
    IF explode
    THEN _apply_index_explode(df, wrapped_partial("hex_ring", [k |-> k]),
                              "h3_hex_ring", "list", "identity")
    ELSE _apply_index_assign(df, wrapped_partial("hex_ring", [k |-> k]),
                             "h3_hex_ring", "list", "identity")

(***************************************************************************)
(* Floating-point numbers (numpy float64, IEEE 754 binary64).  A natural   *)
(* number of any size is the sequence of its digits in base Limb, lowest   *)
(* first, without leading zeros (<<>> is 0).  A dyadic number is           *)
(* [sign, mant, exp] of value sign * mant * 2^exp with sign in {-1, 0, 1}  *)
(* and mant odd (zero: [sign |-> 0, mant |-> <<>>, exp |-> 0]); a float64  *)
(* is a dyadic number whose mant has at most 53 bits.  Exponents stay far  *)
(* from the ends of the binary64 range.                                    *)
(***************************************************************************)
Limb == Pow2(15)

RECURSIVE NatOf(_)
NatOf(n) == IF n = 0 THEN <<>> ELSE <<n % Limb>> \o NatOf(n \div Limb)

RECURSIVE NatTrim(_)
NatTrim(x) ==
    IF x = <<>> \/ x[Len(x)] # 0 THEN x ELSE NatTrim(SubSeq(x, 1, Len(x) - 1))

\* x + y + carry
RECURSIVE NatSum(_, _, _)
NatSum(x, y, carry) ==
    IF x = <<>> /\ y = <<>> THEN NatOf(carry)
    ELSE LET t == (IF x = <<>> THEN 0 ELSE Head(x))
                  + (IF y = <<>> THEN 0 ELSE Head(y)) + carry
         IN  <<t % Limb>> \o NatSum(IF x = <<>> THEN <<>> ELSE Tail(x),
                                    IF y = <<>> THEN <<>> ELSE Tail(y),
                                    t \div Limb)

\* x - y - borrow, for x >= y + borrow, with leading zeros
RECURSIVE NatDiff(_, _, _)
NatDiff(x, y, borrow) ==
    IF x = <<>> THEN <<>>
    ELSE LET t == Head(x) - (IF y = <<>> THEN 0 ELSE Head(y)) - borrow
         IN  <<t % Limb>> \o NatDiff(Tail(x), IF y = <<>> THEN <<>> ELSE Tail(y),
                                     IF t < 0 THEN 1 ELSE 0)

NatLess(x, y) ==
    \/ Len(x) < Len(y)
    \/ /\ Len(x) = Len(y)
       /\ \E k \in 1..Len(x) : /\ x[k] < y[k]
                               /\ \A j \in (k + 1)..Len(x) : x[j] = y[j]

\* x * v + carry, for a digit v
RECURSIVE NatTimes(_, _, _)
NatTimes(x, v, carry) ==
    IF x = <<>> THEN NatOf(carry)
    ELSE LET t == Head(x) * v + carry
         IN  <<t % Limb>> \o NatTimes(Tail(x), v, t \div Limb)

\* x * y: the multiples of x by the digits of y, added up from the top
RECURSIVE NatProduct(_, _)
NatProduct(x, y) ==
    IF y = <<>> \/ x = <<>> THEN <<>>
    ELSE NatTrim(NatSum(NatTimes(x, Head(y), 0),
                        IF Len(y) = 1 THEN <<>> ELSE <<0>> \o NatProduct(x, Tail(y)),
                        0))

\* [quot, rem] of x by a digit d > 0, the digits of x taken from the top
RECURSIVE NatDivMod(_, _)
NatDivMod(x, d) ==
    IF x = <<>> THEN [quot |-> <<>>, rem |-> 0]
    ELSE LET top == NatDivMod(Tail(x), d)
             t == top.rem * Limb + Head(x)
         IN  [quot |-> IF top.quot = <<>> /\ t < d THEN <<>>
                       ELSE <<t \div d>> \o top.quot,
              rem |-> t % d]

\* x * 2^n
NatShiftLeft(x, n) ==
    IF x = <<>> THEN <<>>
    ELSE [k \in 1..(n \div 15) |-> 0] \o NatTimes(x, Pow2(n % 15), 0)

\* x \div 2^n
NatShiftRight(x, n) ==
    NatDivMod(SubSeq(x, (n \div 15) + 1, Len(x)), Pow2(n % 15)).quot

\* 2^n divides x
NatDivisibleBy(x, n) == \A k \in 1..Len(x) :
    \/ k > (n \div 15) + 1
    \/ IF k = (n \div 15) + 1 THEN x[k] % Pow2(n % 15) = 0 ELSE x[k] = 0

\* the number of binary digits of x
NatBits(x) ==
    IF x = <<>> THEN 0
    ELSE 15 * (Len(x) - 1)
            + (CHOOSE b \in 1..15 : Pow2(b - 1) <= x[Len(x)] /\ x[Len(x)] < Pow2(b))

\* how many times 2 divides x # 0
NatTwos(x) == CHOOSE n \in 0..(15 * Len(x)) :
    NatDivisibleBy(x, n) /\ ~NatDivisibleBy(x, n + 1)

Zero == [sign |-> 0, mant |-> <<>>, exp |-> 0]

\* sign * mant * 2^exp for a mant that 2 divides `twos` times
DyadicOdd(sign, mant, exp, twos) ==
    [sign |-> sign, mant |-> NatShiftRight(mant, twos), exp |-> exp + twos]

\* sign * mant * 2^exp with an odd mant
Dyadic(sign, mant, exp) ==
    IF mant = <<>> \/ sign = 0 THEN Zero
    ELSE DyadicOdd(sign, mant, exp, NatTwos(mant))

DyadicNeg(a) == [a EXCEPT !.sign = 0 - a.sign]

\* sa * x * 2^e + sb * y * 2^e for sa, sb of -1, 1, given whether x < y
DyadicAddAligned(sa, sb, x, y, e, less) ==
    Dyadic(IF sa # sb /\ less THEN sb ELSE sa,
           IF sa = sb THEN NatSum(x, y, 0)
           ELSE NatTrim(NatDiff(IF less THEN y ELSE x, IF less THEN x ELSE y, 0)),
           e)

DyadicAddShifted(sa, sb, x, y, e) ==
    DyadicAddAligned(sa, sb, x, y, e, NatLess(x, y))

\* a + b, exactly
DyadicAdd(a, b) ==
    IF a.sign = 0 THEN b
    ELSE IF b.sign = 0 THEN a
    ELSE DyadicAddShifted(a.sign, b.sign,
            NatShiftLeft(a.mant, IF a.exp < b.exp THEN 0 ELSE a.exp - b.exp),
            NatShiftLeft(b.mant, IF a.exp < b.exp THEN b.exp - a.exp ELSE 0),
            IF a.exp < b.exp THEN a.exp ELSE b.exp)

\* a * b, exactly
DyadicMul(a, b) ==
    Dyadic(a.sign * b.sign, NatProduct(a.mant, b.mant), a.exp + b.exp)

DyadicLess(a, b) == DyadicAdd(a, DyadicNeg(b)).sign < 0

\* the float64 nearest to sign * (kept / 2) * 2^exp for a kept of 54 bits
\* whose last bit is the first bit dropped; `sticky`: the value is above it
\* in magnitude, by less than that bit.  Ties go to the even mantissa
RoundGuarded(sign, kept, exp, sticky) ==
    Dyadic(sign,
           NatSum([kept EXCEPT ![1] = @ - (@ % 2)], <<>>,
                  IF kept[1] % 2 = 1 /\ (sticky \/ kept[1] % 4 = 3) THEN 2 ELSE 0),
           exp)

Round64Dropping(sign, mant, exp, inexact, drop) ==
    IF drop <= 0 THEN Dyadic(sign, mant, exp)
    ELSE RoundGuarded(sign, NatShiftRight(mant, drop - 1), exp + drop - 1,
                      inexact \/ ~NatDivisibleBy(mant, drop - 1))

\* the float64 nearest to sign * mant * 2^exp, ties to the even mantissa;
\* with `inexact` the number stands for a value just above it in magnitude
Round64(sign, mant, exp, inexact) ==
    Round64Dropping(sign, mant, exp, inexact, NatBits(mant) - 53)

\* float(n) of an integer
FloatOf(n) == Dyadic(IF n < 0 THEN 0 - 1 ELSE 1, NatOf(Abs(n)), 0)

FloatQuotient(sign, scaled) ==
    Round64(sign, scaled.quot, 0 - 70, scaled.rem # 0)

\* p / q of integers, 0 < q < Limb (true division): the quotient to 70
\* binary places, rounded
FloatDiv(p, q) ==
    FloatQuotient(IF p < 0 THEN 0 - 1 ELSE 1,
                  NatDivMod(NatShiftLeft(NatOf(Abs(p)), 70), q))

\* the largest digit g with y * g <= x, for x < y * Limb, found bit by bit
\* from the top
RECURSIVE NatQuotientDigit(_, _, _, _)
NatQuotientDigit(x, y, bit, g) ==
    IF bit < 0 THEN g
    ELSE IF NatLess(x, NatTrim(NatTimes(y, g + Pow2(bit), 0)))
    THEN NatQuotientDigit(x, y, bit - 1, g)
    ELSE NatQuotientDigit(x, y, bit - 1, g + Pow2(bit))

\* long division of x by y > 0 of any size: the digits of x from the k-th
\* down, after the higher ones gave the digits quot and the remainder rem
RECURSIVE NatLongDivFrom(_, _, _, _, _)
NatLongPut(x, y, k, quot, r, g) ==
    NatLongDivFrom(x, y, k - 1, <<g>> \o quot,
                   NatTrim(NatDiff(r, NatTimes(y, g, 0), 0)))

NatLongNext(x, y, k, quot, r) ==
    IF NatLess(r, y) THEN NatLongDivFrom(x, y, k - 1, <<0>> \o quot, r)
    ELSE NatLongPut(x, y, k, quot, r, NatQuotientDigit(r, y, 14, 0))

NatLongDivFrom(x, y, k, quot, rem) ==
    IF k = 0 THEN [quot |-> NatTrim(quot), rem |-> rem]
    ELSE NatLongNext(x, y, k, quot, NatTrim(<<x[k]>> \o rem))

\* [quot, rem] of x by y > 0
NatLongDiv(x, y) == NatLongDivFrom(x, y, Len(x), <<>>, <<>>)

FloatLongQuotient(sign, exp, scaled) ==
    Round64(sign, scaled.quot, exp - 110, scaled.rem # <<>>)

\* a / b of float64, b # 0: the quotient of the mantissas to 110 binary
\* places, rounded
FloatTrueDiv(a, b) ==
    IF a.sign = 0 THEN Zero
    ELSE FloatLongQuotient(a.sign * b.sign, a.exp - b.exp,
                           NatLongDiv(NatShiftLeft(a.mant, 110), b.mant))

FloatMul(a, b) ==
    Round64(a.sign * b.sign, NatProduct(a.mant, b.mant), a.exp + b.exp, FALSE)

FloatRounded(d) == Round64(d.sign, d.mant, d.exp, FALSE)

FloatAdd(a, b) == FloatRounded(DyadicAdd(a, b))

FloatSub(a, b) == FloatAdd(a, DyadicNeg(b))

(***************************************************************************)
(* H3Accessor.k_ring_smoothing (h3pandas.py).                              *)
(***************************************************************************)
PyList(items) == [t |-> "list", v |-> items]

\* the numeric columns of the tables of the inputs
NumericColumns == {"val"}

\* the sum of a group of float64 as the grouped sum adds it: row by row,
\* every addend corrected by the rounding error of the additions before it
\* (Kahan summation).  y: the corrected addend; t: the sum with it
RECURSIVE KahanSum(_, _, _)
KahanNext(values, sumx, y, t) ==
    KahanSum(values, t, FloatSub(FloatSub(t, sumx), y))

KahanStep(values, sumx, y) == KahanNext(values, sumx, y, FloatAdd(sumx, y))

KahanSum(values, sumx, compensation) ==
    IF values = <<>> THEN sumx
    ELSE KahanStep(Tail(values), sumx, FloatSub(Head(values), compensation))

\* the sum of a column of integers (exact), or of float64
SumBy(rows, column, floats) ==
    IF floats
    THEN KahanSum([n \in 1..Len(rows) |-> rows[n][column]], Zero, Zero)
    ELSE SumSeq([n \in 1..Len(rows) |-> rows[n][column]])

\* the columns a group-by of the table by the column `by` aggregates: all
\* but the index, which the keys replace, and `by` itself
ValueColumns(df, by) ==
    IF df = <<>> THEN {} ELSE DOMAIN df[1] \ {"index", by}

\* the exception of a sum that meets a column it cannot add
SumError == [exc |-> "TypeError", text |-> "agg function failed"]

\* the mutant of groupby(by).sum() that keeps the first row of every group
GroupBySum_First(df, by, floats) ==
    LET keys == SortedCells({df[n][by] : n \in 1..Len(df)})
        columns == ValueColumns(df, by)
    IN  IF ~env.sums_numeric_only /\ ~(columns \subseteq NumericColumns)
        THEN Raise(SumError)
        ELSE Return([m \in 1..Len(keys) |->
                [c \in {"index"} \cup (columns \cap NumericColumns) |->
                    IF c = "index" THEN keys[m]
                    ELSE SumBy(SubSeq(SelectSeq(df, LAMBDA row : row[by] = keys[m]),
                                      1, 1),
                               c, floats)]])

\* df.groupby(by).sum(), called with no choice of columns: a row per value
\* of the column by, keyed by it, in the order of the keys, with the sums
\* of the columns.  A pandas whose sum is numeric only leaves the other
\* columns out; a later one sums every column, and the geometry column of
\* a GeoDataFrame has no sum
GroupBySum(df, by, floats) ==
    LET keys == SortedCells({df[n][by] : n \in 1..Len(df)})
        columns == ValueColumns(df, by)
    IN  IF ~env.sums_numeric_only /\ ~(columns \subseteq NumericColumns)
        THEN Raise(SumError)
        ELSE Return([m \in 1..Len(keys) |->
                [c \in {"index"} \cup (columns \cap NumericColumns) |->
                    IF c = "index" THEN keys[m]
                    ELSE SumBy(SelectSeq(df, LAMBDA row : row[by] = keys[m]),
                               c, floats)]])

\* the mutant of _multiply_numeric that leaves the values as they are
_multiply_numeric_Unscaled(df, value) ==
    [n \in 1..Len(df) |->
        [c \in DOMAIN df[n] |->
            IF c \in NumericColumns THEN FloatOf(df[n][c])
            ELSE df[n][c]]]

\* _multiply_numeric(value)
_multiply_numeric(df, value) ==
    [n \in 1..Len(df) |->
        [c \in DOMAIN df[n] |->
            IF c \in NumericColumns THEN FloatMul(FloatOf(df[n][c]), value)
            ELSE df[n][c]]]

\* result.h3.h3_to_geo_boundary() if return_geometry else result
WithGeometry(df, return_geometry, done) ==
    IF return_geometry
    THEN [call |-> H3Accessor_h3_to_geo_boundary(df),
          steps |-> Append(done, "h3_to_geo_boundary")]
    ELSE [call |-> Return(df), steps |-> done]

\* df.divide(size): the numeric columns of integers divided by it
DivideNumeric(df, size) ==
    [m \in 1..Len(df) |->
        [c \in DOMAIN df[m] |->
            IF c \in NumericColumns THEN FloatDiv(df[m][c], size) ELSE df[m][c]]]

\* the mutant of the unweighted case that divides by the size of the next
\* larger ring
SmoothUnweighted_NextRingSize(df, k, return_geometry) ==
    LET Divided(summed) ==
            IF summed.kind = "raise"
            THEN [call |-> summed, steps |-> << "k_ring", "groupby", "sum" >>,
                  index_name |-> None]
            ELSE [index_name |-> "h3_k_ring"]
                    @@ WithGeometry(
                        DivideNumeric(summed.value, 1 + 3 * (k + 1) * (k + 2)),
                        return_geometry,
                        << "k_ring", "groupby", "sum", "divide", "DataFrame" >>)
        Smoothed(exploded) ==
            IF exploded.kind = "raise"
            THEN [call |-> exploded, steps |-> << "k_ring" >>, index_name |-> None]
            ELSE Divided(GroupBySum(exploded.value, "h3_k_ring", FALSE))
    IN  Smoothed(H3Accessor_k_ring(df, k, TRUE))

\* the unweighted case: the exploded k-rings grouped, summed and divided,
\* and the divided table wrapped in pd.DataFrame(...)
SmoothUnweighted(df, k, return_geometry) ==
    LET Divided(summed) ==
            IF summed.kind = "raise"
            THEN [call |-> summed, steps |-> << "k_ring", "groupby", "sum" >>,
                  index_name |-> None]
            ELSE [index_name |-> "h3_k_ring"]
                    @@ WithGeometry(
                        DivideNumeric(summed.value, 1 + 3 * k * (k + 1)),
                        return_geometry,
                        << "k_ring", "groupby", "sum", "divide", "DataFrame" >>)
        Smoothed(exploded) ==
            IF exploded.kind = "raise"
            THEN [call |-> exploded, steps |-> << "k_ring" >>, index_name |-> None]
            ELSE Divided(GroupBySum(exploded.value, "h3_k_ring", FALSE))
    IN  Smoothed(H3Accessor_k_ring(df, k, TRUE))

\* a list that holds a float, every item as the float64 it is or turns
\* into in an array; the lists of integers alone are PyList
PyFloats(items) == [t |-> "list", v |-> items, of |-> "float"]

\* np.array(weights): of float64 when the list holds a float, else of int64
NpArray(weights) ==
    [dtype |-> IF "of" \in DOMAIN weights THEN "float64" ELSE "int64",
     v |-> weights.v]

\* values.sum() of a float64 array of fewer than eight items: added one
\* after the other, every sum rounded
RECURSIVE NpSum(_, _)
NpSum(values, sumx) ==
    IF values = <<>> THEN sumx
    ELSE NpSum(Tail(values), FloatAdd(sumx, Head(values)))

\* the mutant of the normalization that divides by the plain sum of the
\* weights
NormalizedWeights_PlainSum(weights) ==
    LET Ratios(total) ==
            [i \in 1..Len(weights.v) |-> FloatTrueDiv(weights.v[i], total)]
    IN  IF weights.dtype = "float64"
        THEN Ratios(NpSum(weights.v, Zero))
        ELSE [i \in 1..Len(weights.v) |-> FloatDiv(weights.v[i], SumSeq(weights.v))]

\* weights / (weights * multipliers).sum(), for the array of the weights
\* and the multipliers [1] + [i * 6 for i in range(1, len(weights))].  The
\* products and their sum are exact for int64 and rounded for float64; the
\* quotients are float64
NormalizedWeights(weights) ==
    LET multipliers ==
            [i \in 1..Len(weights.v) |-> IF i = 1 THEN 1 ELSE (i - 1) * 6]
        total == SumSeq([i \in 1..Len(weights.v) |-> weights.v[i] * multipliers[i]])
        Ratios(sum) ==
            [i \in 1..Len(weights.v) |-> FloatTrueDiv(weights.v[i], sum)]
    IN  IF weights.dtype = "float64"
        THEN Ratios(NpSum([i \in 1..Len(weights.v) |->
                              FloatMul(weights.v[i], FloatOf(multipliers[i]))],
                          Zero))
        ELSE [i \in 1..Len(weights.v) |-> FloatDiv(weights.v[i], total)]

\* the weighted case: weights / (weights * multipliers).sum(), then the
\* weighted hex rings one under the other, grouped and summed
SmoothWeighted(df, weights, return_geometry) ==
    LET RingFailure(rings, first) ==
            [call |-> rings[first],
             steps |-> [n \in 1..(2 * first - 1) |->
                            IF n % 2 = 1 THEN "hex_ring" ELSE "_multiply_numeric"],
             index_name |-> None]
        Weighted(rings, normalized) ==
            [i \in 1..Len(weights.v) |->
                _multiply_numeric(rings[i].value, normalized[i])]
        Summed(summed, done) ==
            IF summed.kind = "raise"
            THEN [call |-> summed, steps |-> done, index_name |-> None]
            ELSE [index_name |-> "h3_hex_ring"]
                    @@ WithGeometry(summed.value, return_geometry, done)
        Smoothed(rings, failed) ==
            IF failed # {}
            THEN RingFailure(rings, CHOOSE i \in failed : \A m \in failed : i <= m)
            ELSE Summed(
                    GroupBySum(Flatten(Weighted(rings, NormalizedWeights(weights))),
                               "h3_hex_ring", TRUE),
                    [n \in 1..(2 * Len(weights.v)) |->
                        IF n % 2 = 1 THEN "hex_ring" ELSE "_multiply_numeric"]
                        \o << "concat", "groupby", "sum" >>)
        Rings(rings) ==
            Smoothed(rings, {i \in 1..Len(weights.v) : rings[i].kind = "raise"})
    IN  Rings([i \in 1..Len(weights.v) |-> H3Accessor_hex_ring(df, i - 1, TRUE)])

\* raise ValueError(text)
ConfigurationError(text) == [exc |-> "ValueError", text |-> text]

\* the mutant of k_ring_smoothing that takes k when both are given
k_ring_smoothing_PrefersK(df, k, weights, return_geometry) ==
    IF weights = None /\ k = None
    THEN [call |-> Raise(ConfigurationError(
                     "Exactly one of k and weights must be set.")),
          steps |-> <<>>, index_name |-> None]
    ELSE IF k # None THEN SmoothUnweighted(df, k.v, return_geometry)
    ELSE IF Cardinality(Range(weights.v)) = 1
    THEN SmoothUnweighted(df, Len(weights.v) - 1, return_geometry)
    ELSE IF Len(weights.v) = 0
    THEN [call |-> Raise(ConfigurationError("Weights cannot be empty.")),
          steps |-> <<>>, index_name |-> None]
    ELSE SmoothWeighted(df, NpArray(weights), return_geometry)

\* the mutant of k_ring_smoothing that tests for empty weights after the
\* hex ring of the origin
k_ring_smoothing_LateEmptyCheck(df, k, weights, return_geometry) ==
    IF (IF weights = None THEN 1 ELSE 0) + (IF k = None THEN 1 ELSE 0) # 1
    THEN [call |-> Raise(ConfigurationError(
                     "Exactly one of k and weights must be set.")),
          steps |-> <<>>, index_name |-> None]
    ELSE IF weights # None /\ Cardinality(Range(weights.v)) = 1
    THEN SmoothUnweighted(df, Len(weights.v) - 1, return_geometry)
    ELSE IF weights = None
    THEN SmoothUnweighted(df, k.v, return_geometry)
    ELSE IF Len(weights.v) = 0
    THEN LET ring == H3Accessor_hex_ring(df, 0, TRUE)
         IN  [call |-> IF ring.kind = "raise" THEN ring
                       ELSE Raise(ConfigurationError("Weights cannot be empty.")),
              steps |-> << "hex_ring" >>, index_name |-> None]
    ELSE SmoothWeighted(df, NpArray(weights), return_geometry)

\* the mutant of k_ring_smoothing without the shortcut for equal weights
k_ring_smoothing_NoShortcut(df, k, weights, return_geometry) ==
    IF (IF weights = None THEN 1 ELSE 0) + (IF k = None THEN 1 ELSE 0) # 1
    THEN [call |-> Raise(ConfigurationError(
                     "Exactly one of k and weights must be set.")),
          steps |-> <<>>, index_name |-> None]
    ELSE IF weights = None
    THEN SmoothUnweighted(df, k.v, return_geometry)
    ELSE IF Len(weights.v) = 0
    THEN [call |-> Raise(ConfigurationError("Weights cannot be empty.")),
          steps |-> <<>>, index_name |-> None]
    ELSE SmoothWeighted(df, NpArray(weights), return_geometry)

\* k_ring_smoothing(k=None, weights=None, return_geometry=True): what it
\* returns or raises, and the operations on tables it has run
k_ring_smoothing(df, k, weights, return_geometry) ==
    IF (IF weights = None THEN 1 ELSE 0) + (IF k = None THEN 1 ELSE 0) # 1
    THEN [call |-> Raise(ConfigurationError(
                     "Exactly one of k and weights must be set.")),
          steps |-> <<>>, index_name |-> None]
    ELSE IF weights = None \/ Cardinality(Range(weights.v)) = 1
    THEN SmoothUnweighted(df,
                          IF weights = None THEN k.v ELSE Len(weights.v) - 1,
                          return_geometry)
    ELSE IF Len(weights.v) = 0
    THEN [call |-> Raise(ConfigurationError("Weights cannot be empty.")),
          steps |-> <<>>, index_name |-> None]
    ELSE SmoothWeighted(df, NpArray(weights), return_geometry)

(***************************************************************************)
(* H3Accessor.geo_to_h3 (h3pandas.py).                                     *)
(***************************************************************************)
\* isinstance(self._df, gpd.GeoDataFrame): the table carries a geometry column
IsGeoDataFrame(df) == df # <<>> /\ "geometry" \in DOMAIN df[1]

\* self._df.geometry.x and .y, which only a table of points has
PointCoordinates(df) ==
    IF \E k \in 1..Len(df) : df[k].geometry.type # "Point"
    THEN Raise([exc |-> "ValueError",
                text |-> "x attribute access only provided for Point geometries"])
    ELSE Return([k \in 1..Len(df) |->
                    [lng |-> df[k].geometry.coords[1][1],
                     lat |-> df[k].geometry.coords[1][2]]])

\* geo_to_h3(resolution, lat_col, lng_col, set_index): the cell of every
\* row's coordinates (of its point, in a geometry-bearing table) as a new
\* column, which set_index makes the key
H3Accessor_geo_to_h3(df, resolution, lat_col, lng_col, set_index) ==
    LET colname == _format_resolution(resolution)
        coordinates ==
            IF IsGeoDataFrame(df) THEN PointCoordinates(df)
            ELSE Return([k \in 1..Len(df) |->
                            [lng |-> df[k][lng_col], lat |-> df[k][lat_col]]])
        h3addresses == [k \in 1..Len(df) |->
                            latlng_to_cell(coordinates.value[k].lat,
                                           coordinates.value[k].lng,
                                           resolution.v)]
        assigned == Assign(df, colname, h3addresses)
    IN  IF coordinates.kind = "raise" THEN coordinates
        ELSE IF set_index
        THEN Return([k \in 1..Len(df) |->
                        [c \in (DOMAIN assigned[k]) \ {colname} |->
                            IF c = "index" THEN assigned[k][colname]
                            ELSE assigned[k][c]]])
        ELSE Return(assigned)

(***************************************************************************)
(* H3Accessor.h3_to_parent_aggregate (h3pandas.py).                        *)
(***************************************************************************)
\* catch_invalid_h3_address(h3.h3_to_parent)(h3address, resolution)
safe_h3_to_parent(h, resolution) ==
    LET r == IF AddressError(h) # NoExc THEN Raise(AddressError(h))
             ELSE h3_to_parent(h, resolution)
    IN  IF r.kind = "raise" /\ IsInstance(r.exc, {"TypeError", "ValueError"})
        THEN Raise(InvalidAddressError([name |-> "h3_to_parent"],
                                       <<h, resolution>>, <<>>, r.exc))
        ELSE r

\* agg(operation) of a group of integers with the given sum
Aggregated(operation, sum, count) ==
    IF operation = "mean" THEN FloatDiv(sum, count) ELSE sum

\* the mutant of the aggregation that gives every row a group of its own
GroupByAgg_RowPerRow(df, by, operation) ==
    [m \in 1..Len(df) |->
        [c \in (DOMAIN df[m]) \ {by, "geometry"} |->
            IF c = "index" THEN df[m][by]
            ELSE IF operation = "mean" THEN FloatOf(df[m][c])
            ELSE df[m][c]]]

\* df.groupby(by)[[c for c in columns if c != "geometry"]].agg(operation)
\* for the operations sum and mean: a row per value of the column by, keyed
\* by it, in the order of the keys
GroupByAgg(df, by, operation) ==
    LET keys == SortedCells({df[n][by] : n \in 1..Len(df)})
    IN  [m \in 1..Len(keys) |->
            LET group == SelectSeq(df, LAMBDA row : row[by] = keys[m])
            IN  [c \in (DOMAIN df[1]) \ {by, "geometry"} |->
                    IF c = "index" THEN keys[m]
                    ELSE Aggregated(operation, SumBy(group, c, FALSE), Len(group))]]

\* H3Accessor.h3_to_parent_aggregate(resolution, operation, return_geometry)
H3Accessor_h3_to_parent_aggregate(df, resolution, operation, return_geometry) ==
    LET parent_h3addresses ==
            [k \in 1..Len(df) |-> safe_h3_to_parent(df[k].index, resolution)]
        failed == {k \in 1..Len(df) : parent_h3addresses[k].kind = "raise"}
        h3_parent_column == _format_resolution(resolution)
        Returned(grouped) ==
            IF return_geometry THEN H3Accessor_h3_to_geo_boundary(grouped)
            ELSE Return(grouped)
    IN  IF failed # {}
        THEN parent_h3addresses[CHOOSE k \in failed : \A m \in failed : k <= m]
        ELSE Returned(GroupByAgg(
                Assign(df, h3_parent_column,
                       [k \in 1..Len(df) |-> parent_h3addresses[k].value]),
                h3_parent_column, operation))

(***************************************************************************)
(* H3Accessor.polyfill_resample (h3pandas.py).                             *)
(***************************************************************************)
\* the column reset_index() names `index`; the field `index` of a row
\* record is the row's key, so the column's field is written column:index
RESET_INDEX_COLUMN == "column:index"

\* result.reset_index().set_index(column): the key becomes a column and the
\* column the key
ReindexBy(df, column) ==
    [k \in 1..Len(df) |->
        [c \in ((DOMAIN df[k]) \ {column}) \cup {RESET_INDEX_COLUMN} |->
            IF c = "index" THEN df[k][column]
            ELSE IF c = RESET_INDEX_COLUMN THEN df[k].index
            ELSE df[k][c]]]

\* warnings.warn(f"{n} rows did not generate a H3 cell." ...)
UncoveredWarning(n) ==
    [category |-> "UserWarning", n |-> n,
     text |-> " rows did not generate a H3 cell.Consider using a finer resolution."]

\* polyfill_resample(resolution, return_geometry): what it returns or
\* raises, and the warnings it emits
polyfill_resample(df, resolution, return_geometry) ==
    LET filled == H3Accessor_polyfill(df, resolution, TRUE)
    IN  IF filled.kind = "raise" THEN [call |-> filled, warned |-> <<>>]
        ELSE LET exploded == filled.value
                 uncovered_rows == [k \in 1..Len(exploded) |->
                                        exploded[k][COLUMN_H3_POLYFILL] = NaN]
                 n_uncovered_rows == Cardinality({k \in 1..Len(exploded) :
                                                    uncovered_rows[k]})
                 kept == IF n_uncovered_rows > 0
                         THEN SelectSeq(exploded,
                                LAMBDA row : row[COLUMN_H3_POLYFILL] # NaN)
                         ELSE exploded
                 reindexed == ReindexBy(kept, COLUMN_H3_POLYFILL)
             IN  [call |-> IF return_geometry
                           THEN H3Accessor_h3_to_geo_boundary(reindexed)
                           ELSE Return(reindexed),
                  warned |-> IF n_uncovered_rows > 0
                             THEN << UncoveredWarning(n_uncovered_rows) >>
                             ELSE <<>>]

(***************************************************************************)
(* Inputs of the generator calls.                                          *)
(***************************************************************************)
\* tests/util/test_decorator.py: _input
TestInput ==
    << PyInt(1), PyInt(1), PyInt(2), PyInt(3), PyInt(3), PyInt(4), PyInt(5),
       PyInt(4), PyInt(3), PyInt(3), PyInt(2), PyInt(1), PyInt(1) >>

Values == {None} \cup {PyInt(n) : n \in 1..MaxVal}

IteratorInputs == SeqsUpTo(Values, MaxLen) \cup {TestInput}

\* vertices of the traced lines: 1 and 2 share a cell of every resolution
Lngs == {1, 2, 6, 10}

Lats == {2, 5}

TracePoints == {<<x, y>> : x \in Lngs, y \in Lats}

\* a line has no vertex or at least two
Lines ==
    {LineString(c) :
        c \in {<<>>} \cup UNION {[1..n -> TracePoints] : n \in 2..MaxVertices}}

PartPoints == {<<2, 2>>, <<1, 5>>, <<6, 2>>, <<10, 5>>}

PartLines == {LineString(c) : c \in {<<>>} \cup [1..2 -> PartPoints]}

MultiLines == {MultiLineString(ls) : ls \in SeqsUpTo(PartLines, MaxParts)}

Square == <<  <<1, 1>>, <<7, 1>>, <<7, 7>>, <<1, 7>>, <<1, 1>> >>

NotLines == {Point(2, 2), Polygon(Square, <<>>), MultiPolygon(<<>>)}

TraceInputs ==
    {[geometry |-> g, resolution |-> r] :
        g \in Lines \cup MultiLines \cup NotLines, r \in Resolutions}

(***************************************************************************)
(* The generator returned by a function under @sequential_deduplication.   *)
(***************************************************************************)
InitTrace ==
    /\ \/ /\ func = "function_taking_iterator"
          /\ args \in {[iterator |-> s] : s \in IteratorInputs}
       \/ /\ func = "linetrace"
          /\ args \in TraceInputs
    /\ pc = "idle"
    /\ requests = 0
    /\ iterable = Iter(<<>>, NoExc)
    /\ last = None
    /\ cell = None
    /\ out = <<>>
    /\ raised = NoExc
    /\ result = None
    /\ warnings = <<>>
    /\ steps = <<>>
    /\ index_name = None
    /\ frames = <<>>
    \* the trace lists no set
    /\ env \in Environments({})

\* inner(*args) is a generator function: the call runs none of its body
CallGenerator ==
    /\ pc = "idle"
    /\ func \in {"function_taking_iterator", "linetrace"}
    /\ pc' = "created"
    /\ UNCHANGED <<frames, env, func, args, requests, iterable, last, cell, out, raised, result, warnings, steps, index_name>>

\* the caller's next(): the body runs from its start (iterable = func(*args);
\* last = None) or from the yield (last = cell) to the next yield or the end
Resume ==
    IF pc = "created"
    THEN inner(Wrapped(func, args), None)
    ELSE inner(iterable, cell)

NextYields ==
    /\ pc \in {"created", "suspended"}
    /\ Resume.kind = "yield"
    /\ pc' = "suspended"
    /\ requests' = requests + 1
    /\ iterable' = Resume.rest
    /\ last' = Resume.last
    /\ cell' = Resume.cell
    /\ out' = Append(out, Resume.cell)
    /\ UNCHANGED <<frames, env, func, args, raised, result, warnings, steps, index_name>>

NextStops ==
    /\ pc \in {"created", "suspended"}
    /\ Resume.kind = "stop"
    /\ pc' = "done"
    /\ requests' = requests + 1
    /\ iterable' = Resume.rest
    /\ last' = Resume.last
    /\ cell' = None
    /\ UNCHANGED <<frames, env, func, args, out, raised, result, warnings, steps, index_name>>

NextRaises ==
    /\ pc \in {"created", "suspended"}
    /\ Resume.kind = "raise"
    /\ pc' = "raised"
    /\ requests' = requests + 1
    /\ iterable' = Resume.rest
    /\ last' = Resume.last
    /\ raised' = Resume.exc
    /\ UNCHANGED <<frames, env, func, args, cell, out, result, warnings, steps, index_name>>

NextTrace == CallGenerator \/ NextYields \/ NextStops \/ NextRaises

SpecTrace == InitTrace /\ [][NextTrace]_vars

(***************************************************************************)
(* Statements about the generators.                                        *)
(***************************************************************************)
IsPrefix(s, t) == Len(s) <= Len(t) /\ s = SubSeq(t, 1, Len(s))

HasAdjacentEqual(s) == \E k \in 1..(Len(s) - 1) : s[k] = s[k + 1]

\* s with every maximal run of equal consecutive elements cut to one element
CollapseRuns(s) ==
    LET keep == {k \in 1..Len(s) : k = 1 \/ s[k] # s[k - 1]}
    IN  [m \in 1..Cardinality(keep) |->
            s[CHOOSE k \in keep : Cardinality({x \in keep : x <= k}) = m]]

\* the cell of a vertex (x, y) = (lng, lat)
VertexCell(v, res) == latlng_to_cell(v[2], v[1], res)

\* the grid paths of the consecutive vertex pairs of a line
SegmentPaths(coords, res) ==
    [k \in 1..(Len(coords) - 1) |->
        grid_path_cells(VertexCell(coords[k], res), VertexCell(coords[k + 1], res))]

\* the paths in order, each after the first without its first cell (the
\* junction cell it shares with the path before it)
RECURSIVE JoinAtJunctions(_)
JoinAtJunctions(paths) ==
    IF paths = <<>> THEN <<>>
    ELSE IF Len(paths) = 1 THEN paths[1]
    ELSE JoinAtJunctions(SubSeq(paths, 1, Len(paths) - 1))
            \o Tail(paths[Len(paths)])

ExpectedLine(line, res) == JoinAtJunctions(SegmentPaths(line.coords, res))

ExpectedMultiLine(multi, res) ==
    CollapseRuns(Flatten([k \in 1..Len(multi.geoms) |->
                            ExpectedLine(multi.geoms[k], res)]))

TracesLine == func = "linetrace" /\ args.geometry.type = "LineString"

TracesMultiLine == func = "linetrace" /\ args.geometry.type = "MultiLineString"

TracesNoLine ==
    /\ func = "linetrace"
    /\ args.geometry.type \notin {"LineString", "MultiLineString"}

\* C1: the sequence yielded by sequential_deduplication, and so by linetrace,
\* never holds the same element at two adjacent positions.
C1_NoAdjacentDuplicates == ~HasAdjacentEqual(out)

\* a finished trace of a line whose segment paths repeat the junction cell
C1_Witness ==
    /\ TracesLine
    /\ pc = "done"
    /\ HasAdjacentEqual(Flatten(SegmentPaths(args.geometry.coords, args.resolution)))
    /\ Len(out) >= 3

\* C2: the output of sequential_deduplication is the input with every maximal
\* run of equal consecutive elements collapsed to one element, for every
\* finite input sequence.
C2_CollapsesEveryInput ==
    (func = "function_taking_iterator" /\ pc = "done")
        => out = CollapseRuns(args.iterator)

\* C3: linetrace on a line yields, in vertex order, the grid path of every
\* consecutive vertex pair, both end cells included, a pair's cells before
\* the next pair's, the junction cell of two consecutive segments once.
C3_LineIsJoinedPaths ==
    TracesLine =>
        /\ raised = NoExc
        /\ IsPrefix(out, ExpectedLine(args.geometry, args.resolution))
        /\ pc = "done" => out = ExpectedLine(args.geometry, args.resolution)

\* a finished trace of three vertices in three cells, with a segment of at
\* least three cells
C3_Witness ==
    /\ TracesLine
    /\ pc = "done"
    /\ Len(args.geometry.coords) = 3
    /\ \E k \in 1..2 :
         Len(SegmentPaths(args.geometry.coords, args.resolution)[k]) >= 3
    /\ Len(SegmentPaths(args.geometry.coords, args.resolution)[1]) >= 2
    /\ Len(SegmentPaths(args.geometry.coords, args.resolution)[2]) >= 2
    /\ Len(out) >= 4

\* C4: linetrace on a multi-line yields the traces of its component lines in
\* the given order, consecutive duplicates removed across the boundary of
\* two components too; a cell visited again later is yielded again.
C4_MultiLineIsCollapsedConcatenation ==
    TracesMultiLine =>
        /\ raised = NoExc
        /\ IsPrefix(out, ExpectedMultiLine(args.geometry, args.resolution))
        /\ pc = "done" => out = ExpectedMultiLine(args.geometry, args.resolution)

\* a finished trace of two components, the second starting in the cell the
\* first ends in, that comes back to a cell it has left
C4_Witness ==
    /\ TracesMultiLine
    /\ pc = "done"
    /\ Len(args.geometry.geoms) = 2
    /\ LET t1 == ExpectedLine(args.geometry.geoms[1], args.resolution)
           t2 == ExpectedLine(args.geometry.geoms[2], args.resolution)
       IN  /\ Len(t1) >= 2
           /\ Len(t2) >= 2
           /\ t1[Len(t1)] = t2[1]
           /\ Len(out) = Len(t1) + Len(t2) - 1
    /\ \E a, b \in 1..Len(out) : b > a + 1 /\ out[a] = out[b]

\* C5: linetrace on an empty line ends with an empty sequence and no error,
\* at every resolution.
C5_EmptyLineYieldsNothing ==
    (TracesLine /\ args.geometry.coords = <<>>) =>
        /\ out = <<>>
        /\ raised = NoExc
        /\ requests >= 1 => pc = "done"

\* the empty line traced to its end at the finest resolution
C5_Witness ==
    /\ TracesLine
    /\ args.geometry.coords = <<>>
    /\ args.resolution = MaxRes
    /\ pc = "done"

\* C7 as stated: the type error of an unsupported geometry is surfaced at
\* the call of linetrace, before any element is requested.
C7_RaisedAtTheCall ==
    (TracesNoLine /\ pc # "idle") => (pc = "raised" /\ raised # NoExc)

\* C7 amended: the call returns a generator without any error; the type
\* error is surfaced by the first request of an element, names the
\* offending type, and no cell is yielded before it.
C7_RaisedAtFirstRequest ==
    TracesNoLine =>
        /\ out = <<>>
        /\ requests = 0 => (pc \in {"idle", "created"} /\ raised = NoExc)
        /\ requests >= 1 =>
             /\ requests = 1
             /\ pc = "raised"
             /\ raised = UnknownTypeError(args.geometry)

\* the first element of linetrace(polygon) was requested
C7_Witness ==
    /\ TracesNoLine
    /\ args.geometry.type = "Polygon"
    /\ requests = 1
    /\ pc = "raised"

(***************************************************************************)
(* Inputs of the polygon fill.                                             *)
(***************************************************************************)
\* the closed ring of the rectangle [x1, x2] x [y1, y2]
Rect(x1, y1, x2, y2) ==
    << <<x1, y1>>, <<x2, y1>>, <<x2, y2>>, <<x1, y2>>, <<x1, y1>> >>

\* ring vertices lie off the cell centres of every resolution
EdgeLngs == {1, 5, 7, 11}

EdgeLats == {1, 3, 7}

Corners ==
    {c \in EdgeLngs \X EdgeLats \X EdgeLngs \X EdgeLats :
        c[1] < c[3] /\ c[2] < c[4]}

Rects == {Rect(c[1], c[2], c[3], c[4]) : c \in Corners}

\* the hole lies in the shell and is not all of it
HoleOf(hole, shell) ==
    /\ hole # shell
    /\ hole[1][1] >= shell[1][1] /\ hole[3][1] <= shell[3][1]
    /\ hole[1][2] >= shell[1][2] /\ hole[3][2] <= shell[3][2]

Polygons ==
    {Polygon(p[1], p[2]) :
        p \in {q \in Rects \X SeqsUpTo(Rects, MaxHoles) :
                 \A k \in 1..Len(q[2]) :
                    /\ HoleOf(q[2][k], q[1])
                    /\ \A m \in 1..(k - 1) : q[2][m] # q[2][k]}}

\* the members of the enumerated multi-polygons; the first two overlap
MemberPolygons ==
    { Polygon(Rect(1, 1, 7, 7), <<>>),
      Polygon(Rect(5, 1, 11, 3), <<>>),
      Polygon(Rect(7, 3, 11, 7), <<>>),
      Polygon(Rect(1, 1, 11, 7), << Rect(1, 1, 7, 7) >>),
      Polygon(Rect(1, 1, 5, 3), << Rect(1, 1, 5, 3) >>) }

MultiPolygons ==
    {MultiPolygon(ps) : ps \in SeqsUpTo(MemberPolygons, MaxPolys)}

NotPolygons ==
    { Point(2, 2),
      LineString(<< <<0, 0>>, <<1, 0>>, <<1, 1>> >>),
      LineString(Rect(1, 1, 7, 7)),
      MultiLineString(<< LineString(<< <<0, 0>>, <<1, 0>> >>) >>) }

FillInputs ==
    {[geometry |-> g, resolution |-> r] :
        g \in Polygons \cup MultiPolygons \cup NotPolygons, r \in Resolutions}

RowGeometries ==
    { Polygon(Rect(1, 1, 7, 7), <<>>),
      Polygon(Rect(1, 1, 5, 3), <<>>),
      Polygon(Rect(1, 1, 11, 7), << Rect(1, 1, 7, 7) >>),
      MultiPolygon(<< Polygon(Rect(1, 1, 7, 7), <<>>),
                      Polygon(Rect(5, 1, 11, 3), <<>>) >>) }

\* tables with the default index 0, 1, ... and a value column
Tables ==
    UNION {{[k \in 1..n |-> [index |-> k - 1, geometry |-> gs[k], val |-> 5 * k]] :
                gs \in [1..n -> RowGeometries]} : n \in 1..MaxRows}

AccessorInputs ==
    {[df |-> df, resolution |-> r, explode |-> e] :
        df \in Tables, r \in Resolutions, e \in BOOLEAN}

ResampleInputs ==
    {[df |-> df, resolution |-> r, return_geometry |-> g] :
        df \in Tables, r \in Resolutions, g \in BOOLEAN}

(***************************************************************************)
(* The calls of the polygon fill.                                          *)
(***************************************************************************)
InitFill ==
    /\ \/ /\ func = "polyfill"
          /\ args \in FillInputs
       \/ /\ func = "H3Accessor.polyfill"
          /\ args \in AccessorInputs
       \/ /\ func = "H3Accessor.polyfill_resample"
          /\ args \in ResampleInputs
    /\ pc = "idle"
    /\ requests = 0
    /\ iterable = Iter(<<>>, NoExc)
    /\ last = None
    /\ cell = None
    /\ out = <<>>
    /\ raised = NoExc
    /\ result = None
    /\ warnings = <<>>
    /\ steps = <<>>
    /\ index_name = None
    /\ frames = <<>>
    \* the call of polyfill raises before a set is listed
    /\ env \in Environments({})

PolyfillReturns ==
    /\ pc = "idle"
    /\ func = "polyfill"
    /\ polyfill(args.geometry, args.resolution).kind = "return"
    /\ pc' = "returned"
    /\ result' = polyfill(args.geometry, args.resolution).value
    /\ UNCHANGED <<frames, env, func, args, requests, iterable, last, cell, out, raised, warnings, steps, index_name>>

PolyfillRaises ==
    /\ pc = "idle"
    /\ func = "polyfill"
    /\ polyfill(args.geometry, args.resolution).kind = "raise"
    /\ pc' = "raised"
    /\ raised' = polyfill(args.geometry, args.resolution).exc
    /\ UNCHANGED <<frames, env, func, args, requests, iterable, last, cell, out, result, warnings, steps, index_name>>

\* the whole call of the accessor's polyfill: it returns a table or raises
CallAccessorPolyfill ==
    /\ pc = "idle"
    /\ func = "H3Accessor.polyfill"
    /\ LET r == H3Accessor_polyfill(args.df, args.resolution, args.explode)
       IN  /\ pc' = IF r.kind = "raise" THEN "raised" ELSE "returned"
           /\ raised' = IF r.kind = "raise" THEN r.exc ELSE NoExc
           /\ result' = IF r.kind = "raise" THEN None ELSE r.value
    /\ UNCHANGED <<frames, env, func, args, requests, iterable, last, cell, out, warnings, steps, index_name>>

\* the whole call of polyfill_resample: its warnings, and the table it
\* returns or the exception it raises
CallPolyfillResample ==
    /\ pc = "idle"
    /\ func = "H3Accessor.polyfill_resample"
    /\ LET Receives(r) ==
               /\ pc' = IF r.call.kind = "raise" THEN "raised" ELSE "returned"
               /\ raised' = IF r.call.kind = "raise" THEN r.call.exc ELSE NoExc
               /\ result' = IF r.call.kind = "raise" THEN None ELSE r.call.value
               /\ warnings' = r.warned
               /\ index_name' = IF r.call.kind = "raise" THEN None
                                ELSE PyStr("h3_polyfill")
       IN  Receives(polyfill_resample(args.df, args.resolution,
                                      args.return_geometry))
    /\ UNCHANGED <<frames, env, func, args, requests, iterable, last, cell, out, steps>>

NextFill ==
    PolyfillReturns \/ PolyfillRaises \/ CallAccessorPolyfill \/ CallPolyfillResample

SpecFill == InitFill /\ [][NextFill]_vars

(***************************************************************************)
(* Statements about the polygon fill.                                      *)
(***************************************************************************)
AllCells(res) == Range(GridCells(res))

\* the representative point of a cell as (x, y) = (lng, lat)
CentreXY(c) == Reversed(cell_to_latlng(c))

\* p lies strictly inside the rectangle whose closed ring is given
InsideRect(p, ring) ==
    /\ ring[1][1] < p[1] /\ p[1] < ring[3][1]
    /\ ring[1][2] < p[2] /\ p[2] < ring[3][2]

\* the cells whose representative point lies inside the outer ring and
\* outside every hole
CoveredCells(polygon, res) ==
    {c \in AllCells(res) :
        /\ InsideRect(CentreXY(c), polygon.exterior)
        /\ \A k \in 1..Len(polygon.interiors) :
             ~InsideRect(CentreXY(c), polygon.interiors[k])}

FillsGeometry == func = "polyfill" /\ pc # "idle"

\* C6: polyfill returns a cell set only for a polygon or a multi-polygon;
\* for every other geometry it fails with a type error that names the
\* offending type, and returns no cell set.
C6_OnlyPolygonsAreFilled ==
    FillsGeometry =>
        IF args.geometry.type \in {"Polygon", "MultiPolygon"}
        THEN /\ pc = "returned"
             /\ raised = NoExc
             /\ result \subseteq AllCells(args.resolution)
        ELSE /\ pc = "raised"
             /\ result = None
             /\ raised.exc = "TypeError"
             /\ raised.type = args.geometry.type

\* polyfill of a line, whose coordinates would close to a ring, has failed
C6_Witness ==
    /\ FillsGeometry
    /\ args.geometry = LineString(Rect(1, 1, 7, 7))
    /\ pc = "raised"
    /\ raised = UnknownTypeError(args.geometry)

\* C8: for a polygon with zero or more holes polyfill returns exactly the
\* cells whose representative point lies inside the outer ring and outside
\* every hole; the empty set, and no error, when no point qualifies.
C8_PolygonFillRespectsHoles ==
    (FillsGeometry /\ args.geometry.type = "Polygon") =>
        /\ pc = "returned"
        /\ raised = NoExc
        /\ result = CoveredCells(args.geometry, args.resolution)

\* a polygon whose hole takes some of the cells of its outer ring, not all
C8_Witness ==
    /\ FillsGeometry
    /\ args.geometry.type = "Polygon"
    /\ Len(args.geometry.interiors) = 1
    /\ pc = "returned"
    /\ result # {}
    /\ result # CoveredCells(Polygon(args.geometry.exterior, <<>>), args.resolution)

\* C9: polyfill of a multi-polygon is the union of polyfill of its members;
\* a cell covered by several members appears once.
C9_MultiPolygonFillIsUnion ==
    (FillsGeometry /\ args.geometry.type = "MultiPolygon") =>
        /\ pc = "returned"
        /\ result = UNION {polyfill(args.geometry.geoms[k], args.resolution).value :
                            k \in 1..Len(args.geometry.geoms)}

\* two members that share a cell, each with a cell the other has not
C9_Witness ==
    /\ FillsGeometry
    /\ args.geometry.type = "MultiPolygon"
    /\ Len(args.geometry.geoms) = 2
    /\ pc = "returned"
    /\ LET f1 == polyfill(args.geometry.geoms[1], args.resolution).value
           f2 == polyfill(args.geometry.geoms[2], args.resolution).value
       IN  /\ f1 \cap f2 # {}
           /\ f1 \ f2 # {}
           /\ f2 \ f1 # {}
           /\ Cardinality(result) = Cardinality(f1) + Cardinality(f2)
                                        - Cardinality(f1 \cap f2)

\* C10: the row-level polyfill with explode=False returns the rows of the
\* input in their order with their columns, and a column h3_polyfill that
\* holds for each row the list of exactly the cells of polyfill(row
\* geometry, resolution), the empty list for a row that covers no cell.
C10_RowsGainTheirCellLists ==
    (func = "H3Accessor.polyfill" /\ ~args.explode /\ pc # "idle") =>
        /\ pc = "returned"
        /\ Len(result) = Len(args.df)
        /\ \A k \in 1..Len(args.df) :
             /\ \A column \in DOMAIN args.df[k] :
                  result[k][column] = args.df[k][column]
             /\ DOMAIN result[k] = DOMAIN args.df[k] \cup {COLUMN_H3_POLYFILL}
             /\ Range(result[k][COLUMN_H3_POLYFILL])
                  = polyfill(args.df[k].geometry, args.resolution).value
             /\ Len(result[k][COLUMN_H3_POLYFILL])
                  = Cardinality(polyfill(args.df[k].geometry, args.resolution).value)

(***************************************************************************)
(* Statements about the exploded fill and polyfill_resample.               *)
(***************************************************************************)
\* the cells the geometry of a row covers
Covering(row) == polyfill(row.geometry, args.resolution).value

\* how many rows of a table are the given row
CountRows(table, row) == Cardinality({n \in 1..Len(table) : table[n] = row})

\* C11: the row-level polyfill with explode=True returns exactly one row
\* per pair of an input row and a cell its geometry covers, so as many rows
\* as the input rows cover cells in sum, and no row for an input row whose
\* geometry covers no cell.
C11_ExplodeGivesRowPerCoveringCell ==
    (func = "H3Accessor.polyfill" /\ args.explode /\ pc # "idle") =>
        /\ pc = "returned"
        /\ Len(result) = SumSeq([k \in 1..Len(args.df) |->
                                    Cardinality(Covering(args.df[k]))])
        /\ \A k \in 1..Len(args.df) : \A c \in Covering(args.df[k]) :
             CountRows(result, (COLUMN_H3_POLYFILL :> c) @@ args.df[k]) = 1
        /\ \A k \in 1..Len(args.df) :
             Covering(args.df[k]) = {} =>
                \A n \in 1..Len(result) : result[n].index # args.df[k].index

\* the rows of the table polyfill_resample returned
ResampledRows == IF args.return_geometry THEN result.rows ELSE result

\* the input rows whose geometry covers no cell
UncoveredInputRows == {k \in 1..Len(args.df) : Covering(args.df[k]) = {}}

\* an output row of polyfill_resample that is input row k at cell c
IsResampleOf(row, k, c) ==
    /\ row.index = c
    /\ row[RESET_INDEX_COLUMN] = args.df[k].index
    /\ row.val = args.df[k].val

\* C12: polyfill_resample warns if and only if some input row covers no
\* cell, and the warning counts those rows; it does not fail because of
\* them, no output row lacks its cell address, and every pair of an input
\* row and a cell it covers is an output row, keyed by the cell.
C12_ResampleWarnsAndDropsUncovered ==
    (func = "H3Accessor.polyfill_resample" /\ pc # "idle") =>
        /\ pc = "returned"
        /\ warnings = IF UncoveredInputRows = {} THEN <<>>
                      ELSE << UncoveredWarning(Cardinality(UncoveredInputRows)) >>
        /\ \A n \in 1..Len(ResampledRows) : IsCell(ResampledRows[n].index)
        /\ \A k \in 1..Len(args.df) : \A c \in Covering(args.df[k]) :
             \E n \in 1..Len(ResampledRows) : IsResampleOf(ResampledRows[n], k, c)

\* C13: every output row of polyfill_resample carries the values of the
\* input row it came from, unchanged; a cell two input polygons cover has
\* one output row for each of them, their values not combined.
C13_ResampleCopiesRowValues ==
    (func = "H3Accessor.polyfill_resample" /\ pc # "idle") =>
        /\ pc = "returned"
        /\ \A n \in 1..Len(ResampledRows) :
             \E k \in 1..Len(args.df) :
                IsResampleOf(ResampledRows[n], k, ResampledRows[n].index)
        /\ \A k \in 1..Len(args.df) : \A c \in Covering(args.df[k]) :
             Cardinality({n \in 1..Len(ResampledRows) :
                            IsResampleOf(ResampledRows[n], k, c)}) = 1

(***************************************************************************)
(* Inputs of the row application layer: tables keyed by cell address.      *)
(***************************************************************************)
\* cells of the finest resolution of the lattice: two with a common parent
\* and one of another parent
IndexCells ==
    { [res |-> MaxRes, i |-> 0, j |-> 0], [res |-> MaxRes, i |-> 1, j |-> 0],
      [res |-> MaxRes, i |-> 2, j |-> 1] }

\* cells of the library's finest resolution
DeepCells == { [res |-> 15, i |-> 1024, j |-> 0], [res |-> 15, i |-> 1025, j |-> 0] }

\* the invalid addresses of tests/util/test_decorator.py and of
\* test_h3_to_geo_boundary_wrong_index
InvalidAddresses == { PyStr("invalid"), PyInt(1), BadCell }

\* the tables of up to MaxRows rows keyed by the given addresses, with a
\* value column and the given further columns
IndexTables(addresses, columns) ==
    UNION {{[k \in 1..n |-> [index |-> keys[k], val |-> 5 * k] @@ columns] :
                keys \in [1..n -> addresses]} : n \in 1..MaxRows}

NoColumns == [c \in {} |-> 0]

\* the functions, columns, processors and finalizers the accessor's methods
\* hand to the private methods
RingCalls ==
    {[f |-> wrapped_partial(ring[1], [k |-> k]), column_name |-> ring[2],
      processor |-> "list", finalizer |-> "identity"] :
        ring \in {<<"k_ring", "h3_k_ring">>, <<"hex_ring", "h3_hex_ring">>},
        k \in 0..1}

AssignCalls ==
    { [f |-> wrapped_partial("h3_get_resolution", <<>>),
       column_name |-> "h3_resolution",
       processor |-> "identity", finalizer |-> "identity"],
      [f |-> wrapped_partial("h3_to_geo_boundary", [geo_json |-> TRUE]),
       column_name |-> "geometry",
       processor |-> "Polygon", finalizer |-> "GeoDataFrame"] } \cup RingCalls

\* functions of the caller that give a sequence, the empty one too, for
\* every cell of the index
LookupCalls ==
    {[f |-> wrapped_partial("lookup", [table |-> t]), column_name |-> "element",
      processor |-> "identity", finalizer |-> "identity"] :
        t \in [IndexCells -> {<<>>, <<PyStr("x")>>, <<PyStr("x"), PyStr("y")>>}]}

ApplyInput(df, call) ==
    [df |-> df, f |-> call.f, column_name |-> call.column_name,
     processor |-> call.processor, finalizer |-> call.finalizer]

\* the sets a call of the row application layer makes lists of: what the
\* function gives for the rows, when the processor is list and the function
\* fails on no row
ListedSets(in) ==
    IF /\ in.processor = "list"
       /\ \A k \in 1..Len(in.df) : Call(in.f, in.df[k].index).kind = "return"
    THEN {Call(in.f, in.df[k].index).value : k \in 1..Len(in.df)}
    ELSE {}

\* the call lists at most one set of several cells: the rows of a table
\* that asks for rings of several cells share one address
ListsOneRing(in) ==
    Cardinality({x \in ListedSets(in) : Cardinality(x) > 1}) <= 1

AssignInputs ==
    {in \in {ApplyInput(df, call) :
                df \in IndexTables(IndexCells \cup InvalidAddresses, NoColumns),
                call \in AssignCalls} :
        ListsOneRing(in)}
    \cup
    {ApplyInput(df, call) :
        df \in IndexTables(IndexCells, [h3_resolution |-> 99]),
        call \in {c \in AssignCalls : c.column_name = "h3_resolution"}}

\* the exploding calls: the ring calls, and the lookups, those that give
\* every row of the table the empty sequence among them
ExplodeInputs ==
    {in \in {ApplyInput(df, call) :
                df \in IndexTables(IndexCells \cup InvalidAddresses, NoColumns),
                call \in RingCalls} :
        ListsOneRing(in)}
    \cup
    {ApplyInput(df, call) :
        df \in IndexTables(IndexCells, NoColumns), call \in LookupCalls}

ParentResolutions == {None} \cup {PyInt(r) : r \in {0, 1, 5, 10, 15}}

ParentInputs ==
    {[df |-> df, resolution |-> r] :
        df \in IndexTables(IndexCells \cup InvalidAddresses, NoColumns)
                \cup IndexTables(DeepCells, NoColumns),
        r \in ParentResolutions}

\* the calls of geo_to_h3: tables with the columns lat and lng, tables of
\* points at the same places, and the table of one box, all under the
\* default index 0, 1, ...
GeoToH3Inputs ==
    LET places == {<<0, 0>>, <<5, 1>>, <<6, 9>>}    \* as (lat, lng)
        tables ==
            UNION {{[k \in 1..n |->
                        [index |-> PyInt(k - 1), lat |-> at[k][1], lng |-> at[k][2]]] :
                    at \in [1..n -> places]} : n \in 1..MaxRows}
            \cup UNION {{[k \in 1..n |->
                        [index |-> PyInt(k - 1),
                         geometry |-> Point(at[k][2], at[k][1])]] :
                    at \in [1..n -> places]} : n \in 1..MaxRows}
            \cup {<<[index |-> PyInt(0),
                     geometry |-> Polygon(Rect(0, 0, 1, 1), <<>>)]>>}
    IN  {[df |-> df, resolution |-> PyInt(r), lat_col |-> "lat", lng_col |-> "lng",
          set_index |-> b] :
            df \in tables,
            r \in Resolutions,
            b \in BOOLEAN}

\* the calls of h3_to_parent_aggregate: the tables of the row application
\* layer, with a geometry column too, and the table of the docstring, whose
\* rows of values 5 and 1 have a common parent
AggregateInputs ==
    {[df |-> df, resolution |-> PyInt(r), operation |-> op, return_geometry |-> g] :
        df \in IndexTables(IndexCells \cup {PyStr("invalid")}, NoColumns)
                \cup IndexTables(IndexCells, [geometry |-> Point(0, 0)])
                \cup { << [index |-> [res |-> MaxRes, i |-> 0, j |-> 0], val |-> 5],
                          [index |-> [res |-> MaxRes, i |-> 1, j |-> 0], val |-> 1] >> },
        r \in {0, MaxRes, 5},
        op \in {"sum", "mean"},
        g \in BOOLEAN}

\* the guarded calls of tests/util/test_decorator.py: a function of one
\* address under catch_invalid_h3_address, and an address
GuardInputs ==
    {[f |-> f, h |-> h] :
        f \in {wrapped_partial("h3_to_parent", [res |-> PyInt(r)]) : r \in {0, 1, 5}}
                \cup {wrapped_partial("h3_get_resolution", <<>>)},
        h \in IndexCells \cup InvalidAddresses}

(***************************************************************************)
(* The calls of the row application layer.                                 *)
(***************************************************************************)
InitApply ==
    /\ \/ /\ func = "H3Accessor._apply_index_assign"
          /\ args \in AssignInputs
       \/ /\ func = "H3Accessor._apply_index_explode"
          /\ args \in ExplodeInputs
       \/ /\ func = "H3Accessor.h3_to_parent"
          /\ args \in ParentInputs
       \/ /\ func = "safe_f"
          /\ args \in GuardInputs
       \/ /\ func = "H3Accessor.h3_to_parent_aggregate"
          /\ args \in AggregateInputs
       \/ /\ func = "H3Accessor.geo_to_h3"
          /\ args \in GeoToH3Inputs
    /\ pc = "idle"
    /\ requests = 0
    /\ iterable = Iter(<<>>, NoExc)
    /\ last = None
    /\ cell = None
    /\ out = <<>>
    /\ raised = NoExc
    /\ result = None
    /\ warnings = <<>>
    /\ steps = <<>>
    /\ index_name = None
    /\ frames = <<>>
    /\ env \in Environments(
            IF func \in {"H3Accessor._apply_index_assign",
                         "H3Accessor._apply_index_explode"}
            THEN ListedSets(args) ELSE {})

\* the caller receives what the call returned, or the exception it raised
Receive(r) ==
    /\ pc' = IF r.kind = "raise" THEN "raised" ELSE "returned"
    /\ raised' = IF r.kind = "raise" THEN r.exc ELSE NoExc
    /\ result' = IF r.kind = "raise" THEN None ELSE r.value
    /\ UNCHANGED <<frames, env, func, args, requests, iterable, last, cell, out, warnings, steps, index_name>>

CallApplyIndexAssign ==
    /\ pc = "idle"
    /\ func = "H3Accessor._apply_index_assign"
    /\ Receive(_apply_index_assign(args.df, args.f, args.column_name,
                                   args.processor, args.finalizer))

CallApplyIndexExplode ==
    /\ pc = "idle"
    /\ func = "H3Accessor._apply_index_explode"
    /\ Receive(_apply_index_explode(args.df, args.f, args.column_name,
                                    args.processor, args.finalizer))

CallH3ToParent ==
    /\ pc = "idle"
    /\ func = "H3Accessor.h3_to_parent"
    /\ Receive(H3Accessor_h3_to_parent(args.df, args.resolution))

\* the call of a function under catch_invalid_h3_address
CallGuarded ==
    /\ pc = "idle"
    /\ func = "safe_f"
    /\ Receive(safe_f(args.f, args.h))

\* the whole call of h3_to_parent_aggregate; the index of the table it
\* returns has the name of the parent column
CallH3ToParentAggregate ==
    /\ pc = "idle"
    /\ func = "H3Accessor.h3_to_parent_aggregate"
    /\ LET Receives(r) ==
               /\ pc' = IF r.kind = "raise" THEN "raised" ELSE "returned"
               /\ raised' = IF r.kind = "raise" THEN r.exc ELSE NoExc
               /\ result' = IF r.kind = "raise" THEN None ELSE r.value
               /\ index_name' = IF r.kind = "raise" THEN None
                                ELSE PyStr(_format_resolution(args.resolution))
       IN  Receives(H3Accessor_h3_to_parent_aggregate(
                        args.df, args.resolution, args.operation,
                        args.return_geometry))
    /\ UNCHANGED <<frames, env, func, args, requests, iterable, last, cell, out, warnings, steps>>

CallGeoToH3 ==
    /\ pc = "idle"
    /\ func = "H3Accessor.geo_to_h3"
    /\ LET Receives(r) ==
               /\ pc' = IF r.kind = "raise" THEN "raised" ELSE "returned"
               /\ raised' = IF r.kind = "raise" THEN r.exc ELSE NoExc
               /\ result' = IF r.kind = "raise" THEN None ELSE r.value
               /\ index_name' = IF r.kind = "return" /\ args.set_index
                                THEN PyStr(_format_resolution(args.resolution))
                                ELSE None
       IN  Receives(H3Accessor_geo_to_h3(args.df, args.resolution, args.lat_col,
                                         args.lng_col, args.set_index))
    /\ UNCHANGED <<frames, env, func, args, requests, iterable, last, cell, out, warnings, steps>>

NextApply ==
    \/ CallApplyIndexAssign \/ CallApplyIndexExplode \/ CallH3ToParent
    \/ CallGuarded \/ CallH3ToParentAggregate \/ CallGeoToH3

SpecApply == InitApply /\ [][NextApply]_vars

(***************************************************************************)
(* The calls of k_ring_smoothing.                                          *)
(***************************************************************************)
\* the weights of the tests and of the docstring, and the empty list
WeightLists ==
    { <<>>, <<1>>, <<1, 1>>, <<2, 2>>, <<1, 1, 1>>,
      <<2, 1>>, <<1, 2>>, <<0, 1>>, <<3, 1, 1>> }

\* weights that are floats: [0.1, 0.2], [1, 0.5], [0.1, 0.2, 0.3] and
\* [0.5, 0.5], every literal as the float64 nearest to it
FloatWeightLists ==
    { << FloatDiv(1, 10), FloatDiv(1, 5) >>,
      << FloatOf(1), FloatDiv(1, 2) >>,
      << FloatDiv(1, 10), FloatDiv(1, 5), FloatDiv(3, 10) >>,
      << FloatDiv(1, 2), FloatDiv(1, 2) >> }

\* the geometry column test_does_not_fail_if_geometry_present sets
StaleGeometry == [geometry |-> Point(0, 0)]

\* h3_dataframe_with_values.iloc[:1]: one row of value 1
UnitTables == {<< [index |-> c, val |-> 1] >> : c \in IndexCells}

SmoothInputs ==
    {[df |-> df, k |-> k, weights |-> w, return_geometry |-> g] :
        df \in IndexTables(IndexCells \cup {PyStr("invalid")}, NoColumns)
                \cup IndexTables(IndexCells, StaleGeometry)
                \cup UnitTables,
        k \in {None, PyInt(0), PyInt(1), PyInt(2)},
        w \in {None} \cup {PyList(ws) : ws \in WeightLists}
                     \cup {PyFloats(ws) : ws \in FloatWeightLists},
        g \in BOOLEAN}

InitSmooth ==
    /\ func = "H3Accessor.k_ring_smoothing"
    /\ args \in SmoothInputs
    /\ pc = "idle"
    /\ requests = 0
    /\ iterable = Iter(<<>>, NoExc)
    /\ last = None
    /\ cell = None
    /\ out = <<>>
    /\ raised = NoExc
    /\ result = None
    /\ warnings = <<>>
    /\ steps = <<>>
    /\ index_name = None
    /\ frames = <<>>
    \* the rings are listed inside the call and grouped by cell afterwards:
    \* the rows of a group come from different input rows or rings, in the
    \* order of the join, whatever the order a ring was listed in
    /\ env \in Environments({})

\* the whole call of k_ring_smoothing
CallKRingSmoothing ==
    /\ pc = "idle"
    /\ func = "H3Accessor.k_ring_smoothing"
    /\ LET Receives(r) ==
               /\ pc' = IF r.call.kind = "raise" THEN "raised" ELSE "returned"
               /\ raised' = IF r.call.kind = "raise" THEN r.call.exc ELSE NoExc
               /\ result' = IF r.call.kind = "raise" THEN None ELSE r.call.value
               /\ steps' = r.steps
               /\ index_name' = IF r.call.kind = "raise" THEN None
                                ELSE PyStr(r.index_name)
       IN  Receives(k_ring_smoothing(args.df, args.k, args.weights,
                                     args.return_geometry))
    /\ UNCHANGED <<frames, env, func, args, requests, iterable, last, cell, out, warnings>>

SpecSmooth == InitSmooth /\ [][CallKRingSmoothing]_vars

(***************************************************************************)
(* The tables as objects.  A method of the accessor is the sequence of its *)
(* statements on objects: library calls that make a new object of others,  *)
(* library calls that change an object in place, calls of other methods    *)
(* of the accessor, and the return.  What a statement computes is left     *)
(* open here (the sections above compute it); what it makes, changes and   *)
(* hands on is kept.  Every library call can fail.                         *)
(***************************************************************************)
\* into = of[1].by(of[2], ...): a library call that returns a new object
Make(into, by, of) == [op |-> "make", into |-> into, by |-> by, of |-> of]

\* on.by(...) in place, as on[column] = values is
Write(on, by) == [op |-> "write", on |-> on, by |-> by]

\* into = on.h3.method(...), or self.method(...) for on = "self"
CallOn(into, on, method, with) ==
    [op |-> "call", into |-> into, on |-> on, method |-> method, with |-> with]

ReturnOf(of) == [op |-> "return", of |-> of]

RaiseNow == [op |-> "raise"]

\* the mutant of _apply_index_assign that writes the column into the table
\* it is called on and hands that table on
_apply_index_assign_statements_InPlace(finalizer) ==
    << Make("result", "list", << "self" >>),
       Write("self", "setitem") >>
    \o IF finalizer = "identity" THEN << ReturnOf("self") >>
       ELSE << Make("final", finalizer, << "self" >>), ReturnOf("final") >>

\* _apply_index_assign: the list of the processed values of the index, the
\* table with the column assigned, the finalizer (the identity hands its
\* argument on)
_apply_index_assign_statements(finalizer) ==
    << Make("result", "list", << "self" >>),
       Make("assigned", "assign", << "self", "result" >>) >>
    \o IF finalizer = "identity" THEN << ReturnOf("assigned") >>
       ELSE << Make("final", finalizer, << "assigned" >>), ReturnOf("final") >>

\* _apply_index_explode, whose callers leave the finalizer the identity
_apply_index_explode_statements ==
    << Make("values", "dict", << "self" >>),
       Make("frame", "from_dict", << "values" >>),
       Make("stacked", "stack", << "frame" >>),
       Make("column", "to_frame", << "stacked" >>),
       Make("result", "reset_index", << "column" >>),
       Make("joined", "join", << "self", "result" >>),
       ReturnOf("joined") >>

\* _multiply_numeric
_multiply_numeric_statements ==
    << Make("columns_numeric", "select_dtypes", << "self" >>),
       Make("assign_args", "multiply", << "self", "columns_numeric" >>),
       Make("assigned", "assign", << "self", "assign_args" >>),
       ReturnOf("assigned") >>

\* the methods that are one call of _apply_index_assign: h3_to_geo and
\* h3_to_geo_boundary (finalizer GeoDataFrame), h3_get_resolution,
\* h3_get_base_cell, h3_is_valid, h3_to_parent, h3_to_center_child and
\* cell_area (finalizer left the identity)
index_assign_statements(finalizer) ==
    << CallOn("result", "self", "_apply_index_assign", [finalizer |-> finalizer]),
       ReturnOf("result") >>

\* k_ring and hex_ring
ring_statements(explode) ==
    << CallOn("result", "self",
              IF explode THEN "_apply_index_explode" ELSE "_apply_index_assign",
              [finalizer |-> "identity"]),
       ReturnOf("result") >>

\* geo_to_h3
geo_to_h3_statements(set_index) ==
    << Make("lngs", "getitem", << "self" >>),
       Make("lats", "getitem", << "self" >>),
       Make("h3addresses", "list", << "lats", "lngs" >>),
       Make("df", "assign", << "self", "h3addresses" >>) >>
    \o IF set_index
       THEN << Make("indexed", "set_index", << "df" >>), ReturnOf("indexed") >>
       ELSE << ReturnOf("df") >>

\* polyfill
polyfill_statements(explode) ==
    << Make("result", "apply", << "self" >>) >>
    \o IF ~explode
       THEN << Make("assigned", "assign", << "self", "result" >>),
               ReturnOf("assigned") >>
       ELSE << Make("exploded", "explode", << "result" >>),
               Make("column", "to_frame", << "exploded" >>),
               Make("joined", "join", << "self", "column" >>),
               ReturnOf("joined") >>

\* return x.h3.h3_to_geo_boundary() if return_geometry else x
boundary_statements(x, return_geometry) ==
    IF return_geometry
    THEN << CallOn("bounded", x, "h3_to_geo_boundary", <<>>), ReturnOf("bounded") >>
    ELSE << ReturnOf(x) >>

\* geo_to_h3_aggregate
geo_to_h3_aggregate_statements(return_geometry) ==
    << CallOn("indexed", "self", "geo_to_h3", [set_index |-> FALSE]),
       Make("dropped", "drop", << "indexed" >>),
       Make("groups", "groupby", << "dropped" >>),
       Make("aggregated", "agg", << "groups" >>),
       Make("grouped", "DataFrame", << "aggregated" >>) >>
    \o boundary_statements("grouped", return_geometry)

\* h3_to_parent_aggregate
h3_to_parent_aggregate_statements(return_geometry) ==
    << Make("parent_h3addresses", "list", << "self" >>),
       Make("assigned", "assign", << "self", "parent_h3addresses" >>),
       Make("groups", "groupby", << "assigned" >>),
       Make("columns", "list", << "self" >>),
       Make("selected", "getitem", << "groups", "columns" >>),
       Make("grouped", "agg", << "selected" >>) >>
    \o boundary_statements("grouped", return_geometry)

\* k_ring_smoothing, by the case its arguments put it in: "misconfigured"
\* (not exactly one of k and weights), "unweighted" (k, or equal weights),
\* "empty" (no weights), "weighted" (with `rings` weights)
k_ring_smoothing_statements(case, rings, return_geometry) ==
    IF case \in {"misconfigured", "empty"} THEN << RaiseNow >>
    ELSE IF case = "unweighted"
    THEN << CallOn("exploded", "self", "k_ring", [explode |-> TRUE]),
            Make("groups", "groupby", << "exploded" >>),
            Make("summed", "sum", << "groups" >>),
            Make("divided", "divide", << "summed" >>),
            Make("result", "DataFrame", << "divided" >>) >>
         \o boundary_statements("result", return_geometry)
    ELSE << Make("weights", "array", <<>>),
            Make("multipliers", "array", <<>>),
            Make("products", "multiply", << "weights", "multipliers" >>),
            Make("total", "sum", << "products" >>),
            Make("normalized", "divide", << "weights", "total" >>) >>
         \o Flatten([i \in 1..rings |->
                << CallOn("ring_" \o str(i - 1), "self", "hex_ring", [explode |-> TRUE]),
                   CallOn("weighted_" \o str(i - 1), "ring_" \o str(i - 1),
                          "_multiply_numeric", <<>>) >>])
         \o << Make("stacked", "concat", [i \in 1..rings |-> "weighted_" \o str(i - 1)]),
               Make("groups", "groupby", << "stacked" >>),
               Make("result", "sum", << "groups" >>) >>
         \o boundary_statements("result", return_geometry)

\* polyfill_resample; uncovered: some row generated no cell
polyfill_resample_statements(return_geometry, uncovered) ==
    << CallOn("result", "self", "polyfill", [explode |-> TRUE]),
       Make("column", "getitem", << "result" >>),
       Make("uncovered_rows", "isna", << "column" >>),
       Make("n_uncovered_rows", "sum", << "uncovered_rows" >>) >>
    \o (IF uncovered
        THEN << Make("kept", "invert", << "uncovered_rows" >>),
                Make("covered", "loc", << "result", "kept" >>),
                Make("reset", "reset_index", << "covered" >>) >>
        ELSE << Make("reset", "reset_index", << "result" >>) >>)
    \o << Make("indexed", "set_index", << "reset" >>) >>
    \o boundary_statements("indexed", return_geometry)

\* the statements of a method called with the arguments `with`
Statements(method, with) ==
    CASE method = "_apply_index_assign" -> _apply_index_assign_statements(with.finalizer)
      [] method = "_apply_index_explode" -> _apply_index_explode_statements
      [] method = "_multiply_numeric" -> _multiply_numeric_statements
      [] method \in {"h3_to_geo", "h3_to_geo_boundary"} ->
            index_assign_statements("GeoDataFrame")
      [] method \in {"h3_get_resolution", "h3_get_base_cell", "h3_is_valid",
                     "h3_to_parent", "h3_to_center_child", "cell_area"} ->
            index_assign_statements("identity")
      [] method \in {"k_ring", "hex_ring"} -> ring_statements(with.explode)
      [] method = "geo_to_h3" -> geo_to_h3_statements(with.set_index)
      [] method = "polyfill" -> polyfill_statements(with.explode)
      [] method = "geo_to_h3_aggregate" ->
            geo_to_h3_aggregate_statements(with.return_geometry)
      [] method = "h3_to_parent_aggregate" ->
            h3_to_parent_aggregate_statements(with.return_geometry)
      [] method = "k_ring_smoothing" ->
            k_ring_smoothing_statements(with.case, with.rings, with.return_geometry)
      [] method = "polyfill_resample" ->
            polyfill_resample_statements(with.return_geometry, with.uncovered)

\* what an object holds: the table the caller started with, what a library
\* call made of the objects it was given, and what an object holds after a
\* library call changed it in place
Given(df) == [how |-> "given", by |-> "caller", of |-> df]

Made(by, of) == [how |-> "made", by |-> by, of |-> of]

Written(by, was) == [how |-> "written", by |-> by, of |-> << was >>]

\* the statements run on the objects of `heap` (heap[n]: what object n
\* holds), `locals` naming objects; `fuel`: the library calls that succeed
\* before one fails.  Gives the outcome, the object returned and the heap
RECURSIVE Exec(_, _, _, _)
ExecReturned(st, rest, locals, r) ==
    IF r.kind = "raise" THEN r
    ELSE Exec(rest, (st.into :> r.value) @@ locals, r.heap, r.fuel)

ExecStatement(st, rest, locals, heap, fuel) ==
    IF st.op = "return"
    THEN [kind |-> "return", value |-> locals[st.of], heap |-> heap, fuel |-> fuel]
    ELSE IF st.op = "raise" \/ (st.op # "call" /\ fuel = 0)
    THEN [kind |-> "raise", value |-> 0, heap |-> heap, fuel |-> fuel]
    ELSE IF st.op = "make"
    THEN Exec(rest, (st.into :> Len(heap) + 1) @@ locals,
              Append(heap, Made(st.by, [n \in 1..Len(st.of) |-> heap[locals[st.of[n]]]])),
              fuel - 1)
    ELSE IF st.op = "write"
    THEN Exec(rest, locals,
              [heap EXCEPT ![locals[st.on]] = Written(st.by, @)], fuel - 1)
    ELSE ExecReturned(st, rest, locals,
                      Exec(Statements(st.method, st.with),
                           "self" :> locals[st.on], heap, fuel))

Exec(stmts, locals, heap, fuel) ==
    IF stmts = <<>>
    THEN [kind |-> "return", value |-> 0, heap |-> heap, fuel |-> fuel]
    ELSE ExecStatement(Head(stmts), Tail(stmts), locals, heap, fuel)

\* df.h3.method(...) for the object `on` of the caller
Invoke(method, with, on, heap, fuel) ==
    Exec(Statements(method, with), "self" :> on, heap, fuel)

\* the objects the caller holds after a call: those it held, as the call
\* left them, and the object returned when it is none of them
Held(before, r) ==
    IF r.kind = "return" /\ r.value > Len(before)
    THEN Append(SubSeq(r.heap, 1, Len(before)), r.heap[r.value])
    ELSE SubSeq(r.heap, 1, Len(before))

\* the caller's name of the object a call returned
ReturnedObject(before, r) ==
    IF r.value > Len(before) THEN Len(before) + 1 ELSE r.value

(***************************************************************************)
(* Calls of the accessor one after the other on the tables of a caller.    *)
(***************************************************************************)
\* the calls of the methods, with the arguments that decide their statements
AccessorCalls ==
    {[method |-> m, with |-> <<>>] :
        m \in {"h3_to_geo", "h3_to_geo_boundary", "h3_get_resolution",
               "h3_get_base_cell", "h3_is_valid", "h3_to_parent",
               "h3_to_center_child", "cell_area", "_apply_index_explode",
               "_multiply_numeric"}}
    \cup {[method |-> "_apply_index_assign", with |-> [finalizer |-> f]] :
            f \in {"identity", "GeoDataFrame"}}
    \cup {[method |-> m, with |-> [explode |-> b]] :
            m \in {"k_ring", "hex_ring", "polyfill"}, b \in BOOLEAN}
    \cup {[method |-> "geo_to_h3", with |-> [set_index |-> b]] : b \in BOOLEAN}
    \cup {[method |-> m, with |-> [return_geometry |-> g]] :
            m \in {"geo_to_h3_aggregate", "h3_to_parent_aggregate"}, g \in BOOLEAN}
    \cup {[method |-> "k_ring_smoothing",
           with |-> [case |-> c, rings |-> MaxRings, return_geometry |-> g]] :
            c \in {"misconfigured", "unweighted", "empty", "weighted"},
            g \in BOOLEAN}
    \cup {[method |-> "polyfill_resample",
           with |-> [return_geometry |-> g, uncovered |-> u]] :
            g \in BOOLEAN, u \in BOOLEAN}

\* the tables of the caller: a row of a value at a cell, and a row of a
\* latitude and a longitude
CallerTables ==
    UnitTables \cup {<< [index |-> PyInt(0), lat |-> 0, lng |-> 0] >>}

\* the exception of a library call that failed
LibraryError == [exc |-> "Exception", text |-> "a library call failed"]

InitFrame ==
    /\ func = "H3Accessor"
    /\ args = None
    /\ pc = "idle"
    /\ requests = 0
    /\ iterable = Iter(<<>>, NoExc)
    /\ last = None
    /\ cell = None
    /\ out = <<>>
    /\ raised = NoExc
    /\ result = None
    /\ warnings = <<>>
    /\ steps = <<>>
    /\ index_name = None
    /\ env \in Environments({})
    /\ frames \in {<< Given(df) >> : df \in CallerTables}

\* df[column] = values, by the caller on the table it starts with and
\* before its first call, as test_does_not_fail_if_geometry_present does
CallerSetsColumn ==
    /\ func = "H3Accessor"
    /\ requests = 0
    /\ steps = <<>>
    /\ steps' = << "setitem" >>
    /\ frames' = Exec(<< Write("self", "setitem") >>, "self" :> 1, frames, 1).heap
    /\ UNCHANGED <<env, func, args, pc, requests, iterable, last, cell, out,
                   raised, result, warnings, index_name>>

\* a whole call of a method on one of the tables the caller holds; requests
\* counts the calls
CallAccessor ==
    /\ func = "H3Accessor"
    /\ requests < MaxCalls
    /\ \E call \in AccessorCalls, on \in 1..Len(frames), fuel \in 0..MaxFuel :
          LET Receives(r) ==
                  /\ pc' = IF r.kind = "raise" THEN "raised" ELSE "returned"
                  /\ raised' = IF r.kind = "raise" THEN LibraryError ELSE NoExc
                  /\ result' = IF r.kind = "raise" THEN None
                               ELSE PyInt(ReturnedObject(frames, r))
                  /\ frames' = Held(frames, r)
          IN  /\ Receives(Invoke(call.method, call.with, on, frames, fuel))
              /\ args' = [method |-> call.method, with |-> call.with, on |-> on]
    /\ requests' = requests + 1
    /\ UNCHANGED <<env, func, iterable, last, cell, out, warnings, steps, index_name>>

NextFrame == CallerSetsColumn \/ CallAccessor

SpecFrame == InitFrame /\ [][NextFrame]_vars

Init == InitTrace \/ InitFill \/ InitApply \/ InitSmooth \/ InitFrame

Next == NextTrace \/ NextFill \/ NextApply \/ CallKRingSmoothing \/ NextFrame

Spec == Init /\ [][Next]_vars

(***************************************************************************)
(* Statements about the row application layer.                             *)
(***************************************************************************)
Assigns == func = "H3Accessor._apply_index_assign" /\ pc # "idle"

\* the rows of the input on whose address the function itself fails
FailingRows == {k \in 1..Len(args.df) : Call(args.f, args.df[k].index).kind = "raise"}

\* the error of the guard: a ValueError with the guard's text
IsInvalidAddressError(e) ==
    /\ e.exc = "ValueError"
    /\ e.text = "H3 method raised an error. Is the H3 address correct?"

\* C14: _apply_index_assign is all or nothing: when the function fails on
\* the address of any row, whatever its position, the operation fails with
\* the invalid-address error and returns no table.
C14_AssignIsAllOrNothing ==
    (Assigns /\ FailingRows # {}) =>
        /\ pc = "raised"
        /\ result = None
        /\ IsInvalidAddressError(raised)

\* the table of test_h3_to_geo_boundary_wrong_index: a valid address, then
\* an invalid one
C14_Witness ==
    /\ Assigns
    /\ FailingRows = {2}
    /\ args.df[2].index = PyStr("invalid")
    /\ args.f.name = "h3_to_geo_boundary"
    /\ pc = "raised"
    /\ result = None

\* the rows of the table the row application layer returned
AppliedRows == IF args.finalizer = "GeoDataFrame" THEN result.rows ELSE result

\* C15: when it succeeds, _apply_index_assign returns the rows of the input
\* in their order with their index; the column column_name holds, row by
\* row, the postprocessed value of the function at the row's address, in
\* place of any column of that name the input had; the other columns are
\* unchanged.
C15_AssignAddsTheColumn ==
    (Assigns /\ pc = "returned") =>
        /\ Len(AppliedRows) = Len(args.df)
        /\ \A k \in 1..Len(args.df) :
             /\ DOMAIN AppliedRows[k] = DOMAIN args.df[k] \cup {args.column_name}
             /\ AppliedRows[k][args.column_name]
                  = Process(args.processor, Call(args.f, args.df[k].index).value)
             /\ \A c \in DOMAIN args.df[k] \ {args.column_name} :
                  AppliedRows[k][c] = args.df[k][c]

\* h3_get_resolution on a table that has a column h3_resolution with other
\* values
C15_Witness ==
    /\ Assigns
    /\ pc = "returned"
    /\ Len(args.df) = 2
    /\ args.column_name = "h3_resolution"
    /\ \A k \in 1..2 : /\ args.column_name \in DOMAIN args.df[k]
                       /\ args.df[k].h3_resolution # result[k].h3_resolution
                       /\ result[k].val = args.df[k].val

Explodes == func = "H3Accessor._apply_index_explode" /\ pc # "idle"

\* the postprocessed sequence of the function at the address of row k
SequenceOf(k) == Process(args.processor, Call(args.f, args.df[k].index).value)

Lengths == [k \in 1..Len(args.df) |-> Len(SequenceOf(k))]

\* C16 as stated: for every input table, tables in which rows share an
\* address too, and every function that gives sequences, _apply_index_explode
\* returns as many rows as the sequences of the input rows have elements in
\* sum, a row with an empty sequence adding none.
C16_ExplodeRowCountIsSumOfLengths ==
    (Explodes /\ pc = "returned") => Len(result) = SumSeq(Lengths)

\* the rows an exploding call owes its input: per input row, one row per
\* element of its sequence, or one row holding the missing value
OwedRows ==
    LET OwedRow(k, sequence) ==
            IF sequence = <<>>
            THEN << (args.column_name :> NaN) @@ args.df[k] >>
            ELSE [e \in 1..Len(sequence) |->
                    (args.column_name :> sequence[e]) @@ args.df[k]]
    IN  Flatten([k \in 1..Len(args.df) |-> OwedRow(k, SequenceOf(k))])

\* how often a row comes in a table
Occurrences(rows, row) == Cardinality({n \in 1..Len(rows) : rows[n] = row})

\* C16, amended: _apply_index_explode returns, for every input row, one row
\* per element of its sequence with the element in column column_name and
\* the row's other columns copied, and for a row with an empty sequence one
\* row whose column_name holds the missing value; rows that share an address
\* each get the rows of the sequence.  It returns these rows and no others,
\* each as often as it is owed, in an order the installed pandas decides.
C16_ExplodeKeepsRowsWithoutElements ==
    (Explodes /\ pc = "returned") =>
        /\ Len(result) = SumSeq([k \in 1..Len(args.df) |->
                                    IF Lengths[k] = 0 THEN 1 ELSE Lengths[k]])
        /\ LET owed == OwedRows
           IN  \A row \in Range(owed) :
                    Occurrences(result, row) = Occurrences(owed, row)

\* a row with two elements, then a row of another address with none
C16_Witness ==
    /\ Explodes
    /\ pc = "returned"
    /\ Lengths = <<2, 0>>
    /\ Len(result) = 3
    /\ result[3] = (args.column_name :> NaN) @@ args.df[2]

\* the parent of a cell at a resolution, computed on the lattice
ParentAt(h, r) == [res |-> r, i |-> h.i \div Pow2(h.res - r), j |-> h.j \div Pow2(h.res - r)]

\* "h3_" and the resolution as two digits, for the resolutions 0..15
TwoDigitColumn(r) ==
    IF r < 10 THEN "h3_0" \o Digit[r + 1] ELSE "h3_1" \o Digit[r - 9]

\* C17: for every resolution r of 0..15, h3_to_parent(r) writes the parents
\* at r into the column named "h3_" and r as two zero-padded digits (h3_00
\* for 0, h3_05 for 5); only with no resolution given does it write the
\* column h3_parent, which then holds the direct parents.
C17_ParentColumnIsTwoDigits ==
    (func = "H3Accessor.h3_to_parent" /\ pc = "returned") =>
        \A k \in 1..Len(args.df) :
            IF args.resolution # None
            THEN /\ DOMAIN result[k]
                      = DOMAIN args.df[k] \cup {TwoDigitColumn(args.resolution.v)}
                 /\ result[k][TwoDigitColumn(args.resolution.v)]
                      = ParentAt(args.df[k].index, args.resolution.v)
            ELSE /\ DOMAIN result[k] = DOMAIN args.df[k] \cup {"h3_parent"}
                 /\ result[k].h3_parent
                      = ParentAt(args.df[k].index, args.df[k].index.res - 1)

\* the outcome of the function the guard wraps, called without the guard
Unguarded == Call(args.f, args.h)

\* C18: catch_invalid_h3_address turns a type error, a value error and the
\* grid library's cell error of the wrapped function alike into a
\* ValueError whose message carries the name of the wrapped function, the
\* arguments of the call and the original error; the class the caller sees
\* is ValueError whatever the class of the original error.
C18_GuardRaisesUniformValueError ==
    (/\ func = "safe_f" /\ pc # "idle"
     /\ Unguarded.kind = "raise"
     /\ Bases(Unguarded.exc.exc) \cap {"TypeError", "ValueError", "H3CellError"} # {}) =>
        /\ pc = "raised"
        /\ result = None
        /\ raised.exc = "ValueError"
        /\ raised.caller = args.f.name
        /\ raised.signature.args = << repr(args.h) >>
        /\ raised.original = repr(Unguarded.exc)

\* the call of the test with the address that has the form of a cell
\* address and names none: the library's cell error has become ValueError
C18_Witness ==
    /\ func = "safe_f"
    /\ pc = "raised"
    /\ args.h = BadCell
    /\ args.f.name = "h3_to_parent"
    /\ Unguarded.exc.exc = "H3CellError"
    /\ raised.exc = "ValueError"
    /\ raised.original = repr(Unguarded.exc)

(***************************************************************************)
(* Statements about k_ring_smoothing.                                      *)
(***************************************************************************)
Smooths == func = "H3Accessor.k_ring_smoothing" /\ pc # "idle"

\* the input table has a geometry column
HasGeometry == \A n \in 1..Len(args.df) : "geometry" \in DOMAIN args.df[n]

\* the sum of the grouped rows meets the geometry column of the input: the
\* installed pandas sums every column
SumsGeometry == HasGeometry /\ ~env.sums_numeric_only

\* how many of k and weights the caller supplied
Supplied == Cardinality({p \in {"k", "weights"} : args[p] # None})

\* C19: k_ring_smoothing computes a result only when exactly one of k and
\* weights is supplied; with both or with neither it fails with a
\* ValueError before any ring expansion or aggregation.
C19_ExactlyOneOfKAndWeights ==
    Smooths =>
        /\ pc = "returned" => Supplied = 1
        /\ Supplied # 1 =>
             /\ pc = "raised"
             /\ result = None
             /\ raised = ConfigurationError("Exactly one of k and weights must be set.")
             /\ steps = <<>>

\* both supplied, for a table with an address no ring could be made of
C19_Witness ==
    /\ Smooths
    /\ args.k = PyInt(1)
    /\ args.weights = PyList(<<2, 1>>)
    /\ \E n \in 1..Len(args.df) : ~IsCell(args.df[n].index)
    /\ pc = "raised"
    /\ raised.text = "Exactly one of k and weights must be set."
    /\ steps = <<>>

\* C20: k_ring_smoothing(weights=[]), k not supplied, fails for every input
\* table with a configuration error, before any ring expansion,
\* multiplication or aggregation.
C20_EmptyWeightsFailBeforeAnyWork ==
    (Smooths /\ args.k = None /\ args.weights = PyList(<<>>)) =>
        /\ pc = "raised"
        /\ result = None
        /\ raised = ConfigurationError("Weights cannot be empty.")
        /\ steps = <<>>

\* empty weights for a table of two rows, one with an invalid address
C20_Witness ==
    /\ Smooths
    /\ args.k = None
    /\ args.weights = PyList(<<>>)
    /\ Len(args.df) = 2
    /\ IsCell(args.df[1].index)
    /\ ~IsCell(args.df[2].index)
    /\ pc = "raised"
    /\ raised.text = "Weights cannot be empty."

\* the lists of k + 1 equal weights among the weights of the calls
EqualWeights(k) ==
    {w \in {PyList(ws) : ws \in WeightLists}
                \cup {PyFloats(ws) : ws \in FloatWeightLists} :
        Len(w.v) = k + 1 /\ Cardinality(Range(w.v)) = 1}

\* the call with k alone
SmoothsByK == Smooths /\ args.k # None /\ args.weights = None

\* C21: for every input table and every k >= 0, k_ring_smoothing(k) and
\* k_ring_smoothing(weights = k + 1 equal weights) have the same outcome: the
\* same destination cells, the same values and the same index name (and the
\* same exception for a table neither can smooth).
C21_EqualWeightsAreK ==
    SmoothsByK =>
        \A w \in EqualWeights(args.k.v) :
            LET Same(other) ==
                    /\ (pc = "returned") = (other.call.kind = "return")
                    /\ pc = "returned" =>
                            /\ result = other.call.value
                            /\ index_name = PyStr(other.index_name)
                    /\ pc = "raised" => raised = other.call.exc
            IN  Same(k_ring_smoothing(args.df, None, w, args.return_geometry))

\* k = 1 for a table of two rows, returned with its index name; three
\* lists of two equal weights are among the weights
C21_Witness ==
    /\ SmoothsByK
    /\ args.k = PyInt(1)
    /\ Cardinality(EqualWeights(1)) = 3
    /\ Len(args.df) = 2
    /\ ~args.return_geometry
    /\ pc = "returned"
    /\ index_name = PyStr("h3_k_ring")
    /\ Len(result) > 7

\* the rows of the table the call returned
SmoothedRows == IF args.return_geometry THEN result.rows ELSE result

\* the addresses of the input table, as a set
InputAddresses == {args.df[n].index : n \in 1..Len(args.df)}

\* the input is keyed by pairwise distinct valid cell addresses
DistinctCells ==
    /\ \A n \in 1..Len(args.df) : IsCell(args.df[n].index)
    /\ Cardinality(InputAddresses) = Len(args.df)

\* the call with k = 0, or with one weight
SmoothsRingZero ==
    /\ Smooths
    /\ \/ args.k = PyInt(0) /\ args.weights = None
       \/ args.k = None /\ args.weights # None /\ Len(args.weights.v) = 1

\* C22: for a table of numeric values keyed by pairwise distinct valid cell
\* addresses, k_ring_smoothing(0), and the call with a single weight, return
\* one row per input address holding numerically the value of the input row
\* of that address, and no other cell.  (The table is one of numeric values
\* where the sum adds numeric values only: it has no geometry column, or the
\* sum leaves that column out.)
C22_RingZeroIsIdentity ==
    (SmoothsRingZero /\ DistinctCells /\ ~SumsGeometry) =>
        /\ pc = "returned"
        /\ Len(SmoothedRows) = Len(args.df)
        /\ {SmoothedRows[m].index : m \in 1..Len(SmoothedRows)} = InputAddresses
        /\ \A n \in 1..Len(args.df) : \A m \in 1..Len(SmoothedRows) :
                SmoothedRows[m].index = args.df[n].index =>
                    SmoothedRows[m].val = FloatOf(args.df[n].val)

\* k = 0 for two rows of distinct cells: two rows come back
C22_Witness ==
    /\ SmoothsRingZero
    /\ DistinctCells
    /\ args.k = PyInt(0)
    /\ Len(args.df) = 2
    /\ pc = "returned"
    /\ Len(SmoothedRows) = 2
    /\ SmoothedRows[1].val # SmoothedRows[2].val

\* every address of the input table is a cell
ValidCells == \A n \in 1..Len(args.df) : IsCell(args.df[n].index)

\* the cells the result is keyed by
DestinationCells == {SmoothedRows[m].index : m \in 1..Len(SmoothedRows)}

\* the sum of the values of the input rows at most k cells away from c
ValuesWithin(c, k) ==
    SumSeq([n \in 1..Len(args.df) |->
                IF grid_distance(args.df[n].index, c) <= k
                THEN args.df[n].val ELSE 0])

\* C23: in unweighted mode the value k_ring_smoothing(k) gives a destination
\* cell c is the sum of the values of all input rows whose k-ring (distance
\* <= k, origin included) contains c, divided by 1 + 3*k*(k+1); the
\* destination cells are exactly the union of the k-rings of the input rows,
\* each once.  (Stated of the calls that assign values: a sum that meets a
\* geometry column it cannot add assigns none, which is the matter of C26.)
C23_UnweightedIsRingSumOverRingSize ==
    (SmoothsByK /\ ValidCells /\ ~SumsGeometry) =>
        /\ pc = "returned"
        /\ DestinationCells = UNION {Disk(h, args.k.v) : h \in InputAddresses}
        /\ Cardinality(DestinationCells) = Len(SmoothedRows)
        /\ \A m \in 1..Len(SmoothedRows) :
                SmoothedRows[m].val =
                    FloatDiv(ValuesWithin(SmoothedRows[m].index, args.k.v),
                             1 + 3 * args.k.v * (args.k.v + 1))

\* one row with k = 2: nineteen cells, each with a nineteenth of the value
C23_Witness ==
    /\ SmoothsByK
    /\ args.k = PyInt(2)
    /\ Len(args.df) = 1
    /\ pc = "returned"
    /\ Len(SmoothedRows) = 19
    /\ \A m \in 1..19 : SmoothedRows[m].val = FloatDiv(args.df[1].val, 19)

\* the call in weighted mode: weights alone, not all equal
SmoothsByWeights ==
    /\ Smooths
    /\ args.k = None
    /\ args.weights # None
    /\ Cardinality(Range(args.weights.v)) > 1

\* the number of cells at grid distance i of a cell
RingSize(i) == IF i = 0 THEN 1 ELSE 6 * i

\* the sum of a sequence of dyadic numbers, exactly, by halves
RECURSIVE ExactSum(_)
ExactSum(ds) ==
    IF ds = <<>> THEN Zero
    ELSE IF Len(ds) = 1 THEN ds[1]
    ELSE DyadicAdd(ExactSum(SubSeq(ds, 1, Len(ds) \div 2)),
                   ExactSum(SubSeq(ds, (Len(ds) \div 2) + 1, Len(ds))))

\* a and b differ by at most eps
Within(a, b, eps) ==
    LET d == DyadicAdd(a, DyadicNeg(b))
    IN  ~DyadicLess(eps, IF d.sign < 0 THEN DyadicNeg(d) ELSE d)

\* 2^-n
TwoToMinus(n) == [sign |-> 1, mant |-> <<1>>, exp |-> 0 - n]

\* the sum over i of n[i] * m[i], exactly
WeightedDisk(n) ==
    ExactSum([i \in 1..Len(n) |-> DyadicMul(n[i], FloatOf(RingSize(i - 1)))])

\* the weights of the call as the numbers they are
WeightValues ==
    [i \in 1..Len(args.weights.v) |->
        IF NpArray(args.weights).dtype = "float64" THEN args.weights.v[i]
        ELSE FloatOf(args.weights.v[i])]

\* the weights the call multiplies by
UsedWeights == NormalizedWeights(NpArray(args.weights))

\* (len(weights) + 2) * 2^-53: the roundings of a product, of the
\* len(weights) - 1 additions of the sum, and of the quotient, with room
\* for what they compound to
RoundingOfWeights == DyadicMul(FloatOf(Len(args.weights.v) + 2), TwoToMinus(53))

\* C24 as stated: in weighted mode, for every non-empty vector of
\* non-negative weights that are not all equal, the normalized weights w' of
\* the multiplication satisfy sum over i of w'[i] * m[i] = 1 for
\* m = [1, 6, 12, 18, ...], and the ratios between the weights are those of
\* the given weights.
C24_NormalizedWeightsSumToOne ==
    SmoothsByWeights =>
        LET Normal(w, n) ==
                /\ Len(n) = Len(w)
                /\ WeightedDisk(n) = FloatOf(1)
                /\ \A i, j \in 1..Len(w) :
                        DyadicMul(n[i], w[j]) = DyadicMul(n[j], w[i])
        IN  Normal(WeightValues, UsedWeights)

\* C24, amended: the normalized weights are float64 and meet the statement
\* up to the rounding of the products, the sum and the quotients that
\* compute them: the sum over i of w'[i] * m[i] differs from 1 by at most
\* (len(w) + 2) * 2^-53, and every w'[i] differs from w[i] / sum over j of
\* (w[j] * m[j]) by at most (len(w) + 2) * 2^-53 of it.
C24_NormalizedWeightsSumToOneRounded ==
    SmoothsByWeights =>
        LET Normal(w, n, total, eps) ==
                /\ Len(n) = Len(w)
                /\ Within(WeightedDisk(n), FloatOf(1), eps)
                /\ \A i \in 1..Len(w) :
                        Within(DyadicMul(n[i], total), w[i], DyadicMul(w[i], eps))
        IN  Normal(WeightValues, UsedWeights, WeightedDisk(WeightValues),
                   RoundingOfWeights)

\* the weights [0.1, 0.2] have been normalized and used: 0.2 * 6 and the
\* sum 0.1 + 1.2000000000000002 are rounded, and the quotient of 0.1 by the
\* rounded sum is not the float64 nearest to 0.1 / 1.3: it is off by more
\* than 2^-53 of it
C24_Witness ==
    /\ SmoothsByWeights
    /\ args.weights = PyFloats(<< FloatDiv(1, 10), FloatDiv(1, 5) >>)
    /\ WeightedDisk(UsedWeights) # FloatOf(1)
    /\ ~Within(DyadicMul(UsedWeights[1], WeightedDisk(WeightValues)),
               WeightValues[1], DyadicMul(WeightValues[1], TwoToMinus(53)))
    /\ pc = "returned"
    /\ "_multiply_numeric" \in Range(steps)

\* C25: in weighted mode with k + 1 weights, a single input row of value v
\* at cell o yields exactly the cells within distance k of o, each once, and
\* a cell at grid distance i of o receives v times the normalized weight of
\* ring i; weights [2, 1] and v = 1 give 1/4 at the origin and 1/8 at each
\* of the 6 neighbours.  (Stated of the calls that give cells a value: a
\* sum that meets a geometry column it cannot add gives none, which is the
\* matter of C26.)
C25_WeightedSingleRowFollowsRings ==
    (SmoothsByWeights /\ Len(args.df) = 1 /\ ValidCells /\ ~SumsGeometry) =>
        LET w == args.weights.v
            o == args.df[1].index
            v == args.df[1].val
            normalized == UsedWeights
        IN  /\ pc = "returned"
            /\ DestinationCells = Disk(o, Len(w) - 1)
            /\ Len(SmoothedRows) = Cardinality(Disk(o, Len(w) - 1))
            /\ \A m \in 1..Len(SmoothedRows) :
                    SmoothedRows[m].val =
                        FloatMul(FloatOf(v),
                            normalized[grid_distance(o, SmoothedRows[m].index) + 1])

\* weights [2, 1] for one row of value 1: a quarter at the origin, an eighth
\* at each of the six neighbours, one in all
C25_Witness ==
    /\ SmoothsByWeights
    /\ args.weights = PyList(<<2, 1>>)
    /\ args.df \in UnitTables
    /\ pc = "returned"
    /\ Len(SmoothedRows) = 7
    /\ \A m \in 1..7 :
            SmoothedRows[m].val =
                IF SmoothedRows[m].index = args.df[1].index
                THEN FloatDiv(1, 4) ELSE FloatDiv(1, 8)
    /\ ExactSum([m \in 1..7 |-> SmoothedRows[m].val]) = FloatOf(1)

\* a call the configuration checks let through: k alone, or weights alone
\* that are not empty
SmoothsConfigured ==
    /\ Smooths
    /\ Supplied = 1
    /\ args.weights # PyList(<<>>)

\* C26: when the input table of k_ring_smoothing already has a geometry
\* column the call does not fail because of it, the input geometry values
\* never appear in the result, in either mode, and with return_geometry=True
\* the geometry of every output row is the boundary polygon of the row's
\* destination cell.
C26_StaleGeometryDoesNotLeak ==
    (SmoothsConfigured /\ HasGeometry /\ ValidCells) =>
        /\ pc = "returned"
        /\ \A m \in 1..Len(SmoothedRows) :
                IF args.return_geometry
                THEN /\ SmoothedRows[m].geometry
                            = Polygon(h3_to_geo_boundary(SmoothedRows[m].index), <<>>)
                     /\ \A n \in 1..Len(args.df) :
                            SmoothedRows[m].geometry # args.df[n].geometry
                ELSE "geometry" \notin DOMAIN SmoothedRows[m]

(***************************************************************************)
(* Statements about h3_to_parent_aggregate.                                *)
(***************************************************************************)
Aggregates == func = "H3Accessor.h3_to_parent_aggregate" /\ pc # "idle"

\* every address is a cell with a parent at the resolution of the call
HasParents ==
    \A n \in 1..Len(args.df) :
        IsCell(args.df[n].index) /\ args.resolution.v <= args.df[n].index.res

\* the rows of the table the aggregation returned
AggregatedRows == IF args.return_geometry THEN result.rows ELSE result

\* the input rows whose parent at the resolution of the call is p
RowsUnder(p) ==
    {n \in 1..Len(args.df) : ParentAt(args.df[n].index, args.resolution.v) = p}

\* the sum of the values of the input rows under p
SumUnder(p) ==
    SumSeq([n \in 1..Len(args.df) |->
                IF n \in RowsUnder(p) THEN args.df[n].val ELSE 0])

\* C27: h3_to_parent_aggregate(r, operation) returns exactly one row per
\* distinct resolution-r parent of the input addresses (unique index), whose
\* value is the operation applied to the values of exactly the input rows
\* with that parent (5 and 1 under one parent: 6 for sum, 3 for mean); the
\* input geometry column is not aggregated.
C27_AggregatesByParent ==
    (Aggregates /\ HasParents) =>
        /\ pc = "returned"
        /\ {AggregatedRows[m].index : m \in 1..Len(AggregatedRows)}
                = {ParentAt(args.df[n].index, args.resolution.v) :
                        n \in 1..Len(args.df)}
        /\ \A m, l \in 1..Len(AggregatedRows) :
                AggregatedRows[m].index = AggregatedRows[l].index => m = l
        /\ \A m \in 1..Len(AggregatedRows) :
                /\ AggregatedRows[m].val =
                        IF args.operation = "sum"
                        THEN SumUnder(AggregatedRows[m].index)
                        ELSE FloatDiv(SumUnder(AggregatedRows[m].index),
                                      Cardinality(RowsUnder(AggregatedRows[m].index)))
                /\ IF args.return_geometry
                   THEN AggregatedRows[m].geometry
                            = Polygon(h3_to_geo_boundary(AggregatedRows[m].index), <<>>)
                   ELSE "geometry" \notin DOMAIN AggregatedRows[m]

\* the rows of values 5 and 1 under one parent: the mean is 3
C27_Witness ==
    /\ Aggregates
    /\ Len(args.df) = 2
    /\ args.df[1].val = 5
    /\ args.df[2].val = 1
    /\ args.df[1].index # args.df[2].index
    /\ args.resolution = PyInt(0)
    /\ args.operation = "mean"
    /\ pc = "returned"
    /\ Len(AggregatedRows) = 1
    /\ AggregatedRows[1].val = FloatOf(3)

(***************************************************************************)
(* Statements about all the operations.                                    *)
(***************************************************************************)
\* a step is a call of the accessor by a caller that holds tables as objects
IsAccessorCall == func = "H3Accessor" /\ requests' = requests + 1

\* C28: no operation of the accessor modifies the table it is called on:
\* whatever a call does, return or fail, in any sequence of calls on the
\* tables the caller holds (the ones it started with, changed by itself or
\* not, and the ones earlier calls returned), every table the caller held
\* holds afterwards what it held before, and the table a call returns is an
\* object the caller did not hold before.
C28_InputTableIsNeverModified ==
    [][IsAccessorCall =>
            /\ SubSeq(frames', 1, Len(frames)) = frames
            /\ pc' = "returned" =>
                    /\ result' = PyInt(Len(frames) + 1)
                    /\ Len(frames') = Len(frames) + 1]_vars

\* k_ring(explode=True) has returned a table made by a join of the table
\* of the caller, and a second call, k_ring_smoothing on the table
\* returned, has failed: the caller holds both tables
C28_Witness ==
    /\ func = "H3Accessor"
    /\ requests = 2
    /\ pc = "raised"
    /\ args.method = "k_ring_smoothing"
    /\ args.on = 2
    /\ Len(frames) = 2
    /\ frames[1] \in {Given(df) : df \in CallerTables}
    /\ frames[2].by = "join"
    /\ frames[2].of[1] = frames[1]

\* the total of the column over the rows of the result, exactly, and over
\* the rows of the input
SmoothedTotal == ExactSum([m \in 1..Len(SmoothedRows) |-> SmoothedRows[m].val])

InputTotal == FloatOf(SumSeq([n \in 1..Len(args.df) |-> args.df[n].val]))

\* C29 as stated: k_ring_smoothing conserves the total of the numeric column
\* in both modes: for every input table of valid cells, overlapping
\* neighbourhoods and shared addresses included, and every k or non-empty
\* weights, the sum of the column over the destination cells of the result
\* equals its sum over the input rows.  (Stated of the calls that have a
\* result: a sum that meets a geometry column it cannot add has none, which
\* is the matter of C26.)
C29_SmoothingConservesTotals ==
    (SmoothsConfigured /\ ValidCells /\ ~SumsGeometry) =>
        /\ pc = "returned"
        /\ SmoothedTotal = InputTotal

\* C29, amended: the values of the result are float64, and the sum of the
\* column over the destination cells equals its sum over the input rows up
\* to their rounding: the two differ by at most 2^-50 of the sum over the
\* input rows.
C29_SmoothingConservesTotalsRounded ==
    (SmoothsConfigured /\ ValidCells /\ ~SumsGeometry) =>
        /\ pc = "returned"
        /\ Within(SmoothedTotal, InputTotal, DyadicMul(InputTotal, TwoToMinus(50)))

\* weights [3, 1, 1] for two neighbouring cells: their disks overlap, and
\* the 15 of the input is spread over the cells of the result, whose values
\* do not add up to 15 exactly
C29_Witness ==
    /\ SmoothsByWeights
    /\ args.weights = PyList(<<3, 1, 1>>)
    /\ Len(args.df) = 2
    /\ ValidCells
    /\ grid_distance(args.df[1].index, args.df[2].index) = 1
    /\ pc = "returned"
    /\ Len(SmoothedRows) > 19
    /\ Len(SmoothedRows) < 38
    /\ SmoothedTotal # InputTotal

(***************************************************************************)
(* The trace of a line as a walk on the grid.                              *)
(***************************************************************************)
\* C30: for every non-empty line, the sequence linetrace yields starts with
\* the cell of the first vertex, ends with the cell of the last vertex, and
\* every two consecutive yielded cells are grid-adjacent: the de-duplicated
\* trace has no gap at the junctions of the segments (the grid path of the
\* library being contiguous from its first to its second argument).
C30_TraceIsContiguousWalk ==
    (TracesLine /\ args.geometry.coords # <<>>) =>
        LET coords == args.geometry.coords
        IN  /\ raised = NoExc
            /\ out # <<>> => out[1] = VertexCell(coords[1], args.resolution)
            /\ \A k \in 1..(Len(out) - 1) : grid_distance(out[k], out[k + 1]) = 1
            /\ pc = "done" =>
                    /\ out # <<>>
                    /\ out[Len(out)] = VertexCell(coords[Len(coords)], args.resolution)

\* a finished trace of three vertices in three different cells
C30_Witness ==
    /\ TracesLine
    /\ pc = "done"
    /\ Len(args.geometry.coords) = 3
    /\ Cardinality({VertexCell(args.geometry.coords[k], args.resolution) :
                        k \in 1..3}) = 3
    /\ out[1] = VertexCell(args.geometry.coords[1], args.resolution)
    /\ out[Len(out)] = VertexCell(args.geometry.coords[3], args.resolution)
    /\ Len(out) >= 4

====
